---- MODULE Spec2Model ----
(***************************************************************************)
(* Verification model of stress-ng's invalid-syscall stressor              *)
(* (src/stress-sysinval.c): the supervisor loop of stress_sysinval_child / *)
(* stress_do_syscall, the forked worker, the permutation engine            *)
(* syscall_permute, the hash table and the shared current_context page.    *)
(*                                                                         *)
(* Machine words (unsigned long, 64 bit) are kept as four 16-bit limbs,    *)
(* least significant limb first, so that rotation, xor and the reduction   *)
(* modulo the table size are computed exactly as on the 64-bit target.     *)
(***************************************************************************)
EXTENDS Integers, Sequences, FiniteSets, TLC

(* ------------------------------------------------------------------ *)
(* 64-bit words                                                        *)
(* ------------------------------------------------------------------ *)
LIMB == 2 ^ 16

Word(l0, l1, l2, l3) == <<l0, l1, l2, l3>>

ZeroW == Word(0, 0, 0, 0)

\* (unsigned long)x for a small non-negative integer x < 2^31
UL(x) == Word(x % LIMB, x \div LIMB, 0, 0)

RECURSIVE BitXor(_, _, _)
BitXor(a, b, n) ==
    IF n = 0 THEN 0
    ELSE ((a + b) % 2) + 2 * BitXor(a \div 2, b \div 2, n - 1)

RECURSIVE BitAnd(_, _)
BitAnd(a, b) ==
    IF a = 0 \/ b = 0 THEN 0
    ELSE ((a % 2) * (b % 2)) + 2 * BitAnd(a \div 2, b \div 2)

XorW(a, b) ==
    << BitXor(a[1], b[1], 16), BitXor(a[2], b[2], 16),
       BitXor(a[3], b[3], 16), BitXor(a[4], b[4], 16) >>

\* ROR(val): rotate a 64-bit word right by one bit
ROR(w) ==
    << (w[1] \div 2) + 32768 * (w[2] % 2), (w[2] \div 2) + 32768 * (w[3] % 2),
       (w[3] \div 2) + 32768 * (w[4] % 2), (w[4] \div 2) + 32768 * (w[1] % 2) >>

SYSCALL_HASH_TABLE_SIZE == 10007

\* w % SYSCALL_HASH_TABLE_SIZE, by Horner's rule over the limbs
ModW(w) ==
    LET r3 == w[4] % SYSCALL_HASH_TABLE_SIZE
        r2 == (r3 * LIMB + w[3]) % SYSCALL_HASH_TABLE_SIZE
        r1 == (r2 * LIMB + w[2]) % SYSCALL_HASH_TABLE_SIZE
    IN  (r1 * LIMB + w[1]) % SYSCALL_HASH_TABLE_SIZE

\* w << n on 64 bits, the bits shifted out at the top being lost
RECURSIVE ShlW(_, _)
ShlW(w, n) ==
    IF n = 0 THEN w
    ELSE ShlW(<< (2 * w[1]) % LIMB, ((2 * w[2]) % LIMB) + (w[1] \div 32768),
                 ((2 * w[3]) % LIMB) + (w[2] \div 32768),
                 ((2 * w[4]) % LIMB) + (w[3] \div 32768) >>, n - 1)

\* SHR_UL(v, shift): (unsigned long)(((unsigned long long)v) << shift), a
\* shift to the left despite its name
SHR_UL(v, shift) == ShlW(v, shift)

\* stress_syscall_hash(): args is a function 0..5 -> word
stress_syscall_hash(syscall, args) ==
    LET h0 == UL(syscall)
        h1 == XorW(ROR(ROR(h0)), args[0])
        h2 == XorW(ROR(ROR(h1)), args[1])
        h3 == XorW(ROR(ROR(h2)), args[2])
        h4 == XorW(ROR(ROR(h3)), args[3])
        h5 == XorW(ROR(ROR(h4)), args[4])
        h6 == XorW(ROR(ROR(h5)), args[5])
    IN  ModW(h6)

(* ------------------------------------------------------------------ *)
(* Argument types, invalid values and the system call table            *)
(* ------------------------------------------------------------------ *)
ARG_NONE == 0
ARG_PTR == 1
ARG_INT == 2
ARG_UINT == 4
ARG_SOCKFD == 16
ARG_STRUCT_SOCKADDR == 32
ARG_SOCKLEN_T == 64
ARG_FLAG == 128
ARG_BRK_ADDR == 256
ARG_MODE == 512
ARG_LEN == 1024
ARG_SECONDS == 4096
ARG_BPF_ATTR == 8192
ARG_EMPTY_FILENAME == 16384
ARG_DEVZERO_FILENAME == 32768
ARG_CLOCKID_T == 65536
ARG_FUNC_PTR == 131072
ARG_FD == 262144
ARG_TIMEOUT == 524288
ARG_DIRFD == 1048576
ARG_DEVNULL_FILENAME == 2097152
ARG_RND == 4194304
ARG_PID == 8388608
ARG_NON_NULL_PTR == 16777216
ARG_NON_ZERO_LEN == 33554432
ARG_GID == 67108864
ARG_UID == 134217728
ARG_FUTEX_PTR == 268435456

\* ARG_MASK(x, mask): all bits of mask are set in x
ARG_MASK(x, mask) == BitAnd(x, mask) = mask

\* (long)x widened to 64 bits for a C int x (two's complement)
SL(x) ==
    IF x >= 0 THEN UL(x)
    ELSE Word(x % LIMB, (x \div LIMB) % LIMB, LIMB - 1, LIMB - 1)

INT_MAX == 2147483647
INT_MIN == -2147483647 - 1

\* Addresses fixed when the program is built and loaded.  The address of
\* the string literal "" is an input: EmptyStringAddrs are two addresses in
\* the read-only data of a static binary, 0x5dc430 and 0x5dc42c.  With the
\* first, chroot("") and chroot(NULL) hash to the same bucket (1493); with
\* the second they do not (1497 and 1493).
EmptyStringAddrs == { Word(50224, 93, 0, 0), Word(50220, 93, 0, 0) }
DevZeroString == Word(50228, 93, 0, 0)
DevNullString == Word(50240, 93, 0, 0)
FuncExitAddr == Word(4976, 64, 0, 0)
\* small_ptr + page_size - 1 and page_ptr as set up by stress_sysinval()
SmallPtrLast == Word(20479, 63421, 32767, 0)
PagePtr == Word(8192, 63421, 32767, 0)
\* small_ptr itself, the start of the readable page of the arena
\* (SmallPtrLast is small_ptr + page_size - 1, page_size being 4096)
SmallPtr == Word(16384, 63421, 32767, 0)

none_values == << ZeroW >>
mode_values == << SL(-1), SL(INT_MAX), SL(INT_MIN), SL(-1), Word(0, 16, 0, 0) >>
fds == << SL(-1), SL(INT_MAX), SL(INT_MIN), SL(-1) >>
dirfds == << SL(-1), SL(-100), SL(INT_MIN), SL(-1) >>
clockids == << SL(-1), SL(INT_MAX), SL(INT_MIN), SL(-1), Word(0, 63628, 3, 0) >>
sockaddrs == << SmallPtrLast, PagePtr, ZeroW, SL(-1), SL(INT_MAX), SL(INT_MIN) >>
brk_addrs == << ZeroW, SL(-1), SL(INT_MAX), SL(INT_MIN), SL(-1), UL(4096) >>
empty_filenames(emptyStr) == << emptyStr, ZeroW >>
zero_filenames == << DevZeroString >>
null_filenames == << DevNullString >>
flags == << SL(-1), SL(-2), SL(INT_MIN), Word(0, 65520, 15, 0) >>
lengths == << SL(-1), SL(-2), SL(INT_MIN), SL(INT_MAX), SL(-1), SL(INT_MIN) >>
ints ==
    << ZeroW, SL(-1), SL(-2), SL(INT_MIN), SL(INT_MAX),
       Word(0, 49152, 63, 0), Word(0, 16384, 0, 0),
       Word(0, 16384, 65472, 65535), Word(0, 49152, 65535, 65535) >>
uints ==
    << SL(INT_MAX), Word(0, 49152, 63, 0), Word(0, 16384, 65472, 65535), SL(-1) >>
func_ptrs == << FuncExitAddr >>
ptrs ==
    << SmallPtrLast, PagePtr, ZeroW, SL(-1), SL(INT_MAX), SL(INT_MIN),
       Word(61439, 65535, 65535, 65535) >>
futex_ptrs == << SmallPtrLast, PagePtr >>
non_null_ptrs ==
    << SmallPtrLast, PagePtr, SL(-1), SL(INT_MAX), SL(INT_MIN),
       Word(61439, 65535, 65535, 65535) >>
socklens == << ZeroW, SL(-1), SL(INT_MAX), SL(INT_MIN), UL(8192) >>
timeouts == << ZeroW >>
\* sockfds[0] is the helper socket (or -1), sockfds[1] stays 0
sockfds(fd) == << fd, ZeroW, SL(-1), SL(INT_MAX), SL(INT_MIN), SL(-1) >>
\* pids, gids and uids are arrays of 32-bit elements read through an
\* unsigned long pointer: two elements make one word, and num_values counts
\* elements, so the reads run past the end of the array.  Only the words
\* inside the array are listed.
pids == << Word(0, 32768, 65535, 65535), Word(65535, 32767, 65535, 65535) >>
gids == << Word(65535, 65535, 65535, 32767) >>
uids == << Word(65535, 65535, 65535, 32767) >>

\* arg_values[]: mapping of invalid arg types to invalid arg values, in
\* declaration order
arg_values(emptyStr, fd) ==
    << [mask |-> ARG_MODE, values |-> mode_values],
       [mask |-> ARG_SOCKFD, values |-> sockfds(fd)],
       [mask |-> ARG_FD, values |-> fds],
       [mask |-> ARG_DIRFD, values |-> dirfds],
       [mask |-> ARG_CLOCKID_T, values |-> clockids],
       [mask |-> ARG_PID, values |-> pids],
       [mask |-> ARG_PTR + ARG_STRUCT_SOCKADDR, values |-> sockaddrs],
       [mask |-> ARG_BRK_ADDR, values |-> brk_addrs],
       [mask |-> ARG_EMPTY_FILENAME, values |-> empty_filenames(emptyStr)],
       [mask |-> ARG_DEVZERO_FILENAME, values |-> zero_filenames],
       [mask |-> ARG_DEVNULL_FILENAME, values |-> null_filenames],
       [mask |-> ARG_FLAG, values |-> flags],
       [mask |-> ARG_SOCKLEN_T, values |-> socklens],
       [mask |-> ARG_TIMEOUT, values |-> timeouts],
       [mask |-> ARG_LEN, values |-> lengths],
       [mask |-> ARG_GID, values |-> gids],
       [mask |-> ARG_UID, values |-> uids],
       [mask |-> ARG_INT, values |-> ints],
       [mask |-> ARG_UINT, values |-> uints],
       [mask |-> ARG_FUNC_PTR, values |-> func_ptrs],
       [mask |-> ARG_NON_NULL_PTR, values |-> non_null_ptrs],
       [mask |-> ARG_FUTEX_PTR, values |-> futex_ptrs],
       [mask |-> ARG_PTR, values |-> ptrs] >>

\* A variant of the scan that does not stop at the first match and so ends
\* with the last entry whose mask is set in arg
ArgValuesLastMatch(arg, emptyStr, fd) ==
    IF arg = ARG_NONE THEN none_values
    ELSE LET tbl == arg_values(emptyStr, fd)
             hit == { k \in 1..Len(tbl) : ARG_MASK(arg, tbl[k].mask) }
         IN  IF hit = {} THEN << >>
             ELSE tbl[CHOOSE k \in hit : \A m \in hit : k >= m].values

\* The values syscall_permute() enumerates for argument type arg: one zero
\* for ARG_NONE, otherwise the values of the first entry of arg_values whose
\* mask is contained in arg, and << >> (num_values stays 0) when none is.
\* (case ARG_RND is RndValues below.)
ArgValues(arg, emptyStr, fd) ==
    IF arg = ARG_NONE THEN none_values
    ELSE LET tbl == arg_values(emptyStr, fd)
             hit == { k \in 1..Len(tbl) : ARG_MASK(arg, tbl[k].mask) }
         IN  IF hit = {} THEN << >>
             ELSE tbl[CHOOSE k \in hit : \A m \in hit : k <= m].values

\* Results of stress_mwc64() and of stress_mwc32() (a uint32_t, widened)
\* that a run may draw
Mwc64Draws == { Word(4660, 22136, 39612, 57072), Word(65535, 0, 1, 32768) }
Mwc32Draws == { Word(1, 0, 0, 0), Word(51966, 47806, 0, 0) }

\* case ARG_RND: the arrays rnd_values[] that one entry of syscall_permute()
\* may fill, two drawn values followed by small_ptr and page_ptr
RndValues ==
    { << r64, SHR_UL(r32, 20), SmallPtr, PagePtr >> :
         r64 \in Mwc64Draws, r32 \in Mwc32Draws }

\* rnd_values[] of an entry of syscall_permute() for argument type arg: set
\* under case ARG_RND only (<< >> stands for the array left unset)
RndDraws(arg) == IF arg = ARG_RND THEN RndValues ELSE { << >> }

\* values / num_values after the switch (arg): rnd_values under case ARG_RND,
\* else what ArgValues finds
Values(arg, rnd, emptyStr, fd) ==
    IF arg = ARG_RND THEN rnd ELSE ArgValues(arg, emptyStr, fd)

\* syscall_args[]: the entries of the table that the model exercises,
\* chdir with "/dev/zero" and chroot with an empty file name (80 and 161
\* are __NR_chdir and __NR_chroot of x86-64), indexed from 0 as in C
syscall_args ==
    [j \in 0..1 |->
        IF j = 0
        THEN [syscall |-> 80, name |-> "chdir", num_args |-> 1,
              args |-> [p \in 0..5 |->
                          IF p = 0 THEN ARG_PTR + ARG_DEVZERO_FILENAME ELSE 0]]
        ELSE [syscall |-> 161, name |-> "chroot", num_args |-> 1,
              args |-> [p \in 0..5 |->
                          IF p = 0 THEN ARG_PTR + ARG_EMPTY_FILENAME ELSE 0]]]

NumSyscalls == Cardinality(DOMAIN syscall_args)

\* One entry of syscall_args[]: system call number, name, num_args and the
\* tags of its arguments (tags beyond those given are 0)
Descriptor(num, name, tags) ==
    [syscall |-> num, name |-> name, num_args |-> Len(tags),
     args |-> [p \in 0..5 |-> IF p < Len(tags) THEN tags[p + 1] ELSE 0]]

\* Further entries of syscall_args[] on which syscall_permute() is run on its
\* own: munlock, alarm, access and chroot of a file name, brk, unlinkat,
\* bind and getrlimit of a random resource (150, 37, 21, 161, 12, 263, 49
\* and 97 are their numbers on x86-64)
more_syscall_args ==
    << Descriptor(150, "munlock", << ARG_PTR, ARG_LEN >>),
       Descriptor(37, "alarm", << ARG_SECONDS >>),
       Descriptor(21, "access", << ARG_PTR + ARG_EMPTY_FILENAME, ARG_MODE >>),
       Descriptor(161, "chroot", << ARG_PTR + ARG_DEVZERO_FILENAME >>),
       Descriptor(12, "brk", << ARG_PTR + ARG_BRK_ADDR >>),
       Descriptor(263, "unlinkat",
                  << ARG_DIRFD, ARG_EMPTY_FILENAME, ARG_FLAG >>),
       Descriptor(49, "bind",
                  << ARG_SOCKFD, ARG_PTR + ARG_STRUCT_SOCKADDR,
                     ARG_SOCKLEN_T >>),
       Descriptor(97, "getrlimit", << ARG_RND, ARG_PTR >>) >>

\* const size_t page_size = args->page_size, on a machine with 4K pages
page_size == 4096

\* sizeof(syscall_current_context_t): eight 8-byte members, crash_count[]
\* with one uint64_t per entry of syscall_args[] (337 entries in the
\* source), args[6] and filler[4096]
SizeofContext == (8 * 8) + (8 * 337) + (8 * 6) + 4096

\* (sizeof(*current_context) + page_size) & ~(page_size - 1)
current_context_size ==
    ((SizeofContext + page_size) \div page_size) * page_size

\* size_t small_ptr_size = page_size << 1
small_ptr_size == 2 * page_size

\* the length passed to the mmap() of a region
MapLength(region) ==
    IF region = "current_context" THEN current_context_size
    ELSE IF region = "small_ptr" THEN small_ptr_size
    ELSE page_size

\* munmap(addr, length) at the start of a mapping of which have bytes are
\* mapped: the bytes that stay mapped
munmap(have, length) == IF length >= have THEN 0 ELSE have - length

\* nothing acquired yet, and everything stress_sysinval() acquires
NoneHeld ==
    [current_context |-> 0, small_ptr |-> 0, page_ptr |-> 0, socket |-> 0]
AllHeld(fd) ==
    [current_context |-> current_context_size, small_ptr |-> small_ptr_size,
     page_ptr |-> page_size, socket |-> IF fd = SL(-1) THEN 0 ELSE 1]

\* what the block under 'if (region == MAP_FAILED)' releases before it
\* returns: nothing for current_context; munmap(current_context, page_size)
\* for small_ptr; munmap(small_ptr, small_ptr_size) and
\* munmap(current_context, page_size) for page_ptr
FailureCleanup(h, region) ==
    IF region = "current_context" THEN h
    ELSE IF region = "small_ptr"
    THEN [h EXCEPT !.current_context = munmap(@, page_size)]
    ELSE [h EXCEPT !.small_ptr = munmap(@, small_ptr_size),
                   !.current_context = munmap(@, page_size)]

\* the end of stress_sysinval(): the three munmap() calls and
\* if (sockfds[0] >= 0) close(sockfds[0])
FinalRelease(h, fd) ==
    [h EXCEPT !.page_ptr = munmap(@, page_size),
              !.small_ptr = munmap(@, small_ptr_size),
              !.current_context = munmap(@, current_context_size),
              !.socket = IF fd = SL(-1) THEN @ ELSE 0]

MAX_CRASHES == 10

SYSCALL_FAIL == 0
SYSCALL_CRASH == 1
SYSCALL_ERRNO_ZERO == 2

(* ------------------------------------------------------------------ *)
(* Bounds of the model                                                 *)
(* ------------------------------------------------------------------ *)
\* nodes in the supervisor's hash table beyond which no worker is forked, in
\* a run without asynchronous event (MaxNodes) and in a run with one
\* (MaxNodesFaulty)
MaxNodes == 10
MaxNodesFaulty == 2
\* asynchronous events of one run: a signal that ends a worker from outside
\* the call it makes (the interval timer's SIGALRM, a SIGKILL from another
\* process), a failed wait of the supervisor, or a calloc() that returns NULL
MaxFaults == 1
\* system calls counted in current_context->counter in one run
MaxCalls == 2
\* leaves counted in skip_crashed, and in skip_errno_zero, in one run
MaxSkips == 2
\* the limit N of a run started with sysinval-ops N
MaxOps == 1
\* system calls counted in one run of syscall_permute() taken on its own
MaxEngineCalls == 180

(* ------------------------------------------------------------------ *)
(* State                                                               *)
(* ------------------------------------------------------------------ *)
VARIABLES
    keep,             \* g_keep_stressing_flag
    max_ops,          \* args->max_ops: the limit of sysinval-ops, 0 for none
    args_counter,     \* the counter of args, written by set_counter()
    emptyStr,         \* address of the string literal ""
    sockfd,           \* sockfds[0]
    issued,           \* system calls the workers have entered so far
    mapped,           \* which of current_context, small_ptr, page_ptr are mapped
    held,             \* bytes of each mapping, and helper sockets, that
                      \* stress_sysinval() has acquired and not released
    current_context,  \* the page shared by supervisor and workers
    hash_table,       \* hash_table[] of the supervisor process
    ppc,              \* where the supervisor is
    wstate,           \* "none", "running", "killed" (SIGKILL sent, not yet
                      \* terminated), "dead" (terminated, not yet reaped)
    wexit,            \* how the worker terminated
    status,           \* supervisor: status, as written by shim_waitpid()
    rc,               \* supervisor: rc of stress_do_syscall()
    exit_status,      \* exit status of the stressor, "none" while it runs
    wpc,              \* where the worker is
    child_table,      \* hash_table[] of the worker process
    reorder,          \* worker: reorder[]
    wi,               \* worker: i of the loop over the system calls
    vi,               \* worker: i of each active syscall_permute() frame
    rnd_values,       \* worker: rnd_values[0..1] of each active frame (<< >>
                      \* in a frame that did not take case ARG_RND)
    lhash,            \* worker: hash of the leaf being run
    lret,             \* worker: ret of the leaf being run, 0 before the call
    permuted,         \* which descriptor syscall_permute() runs on: 0 for
                      \* syscall_args[reorder[wi]] of the worker's loop, k > 0
                      \* for the entry more_syscall_args[k] taken on its own
    visits,           \* the index combinations (vi) with which the running
                      \* syscall_permute() has reached its leaf so far
    wsetup,           \* what the latest worker has done of its setup, and
                      \* what of it has failed
    timer,            \* worker: ITIMER_REAL is armed
    inflight,         \* the call the worker has issued and that has not returned
    zero_recorded,    \* the (syscall, args) tuples whose call has returned 0
                      \* and been added to the table of the running worker
    orphans,          \* earlier workers still alive when the next was forked
    faults,           \* asynchronous events so far (see MaxFaults)
    hash_in,          \* stress_syscall_hash() taken on its own: the system
                      \* call number and the six words it is applied to
    hash_k,           \* the rearrangements of the six words hashed so far
    hash_changed,     \* how many of them gave another hash than hash_in
    mpc,              \* stress_mmap_child(): position in the loop
    page_mapped,      \* stress_mmap_child(): mapped[], one flag per page
    mappings,         \* stress_mmap_child(): mappings[], address per page
    unmap_call,       \* the last call of stress_mmap_fast_unmap(): mapped[]
                      \* and mappings[] on entry, munmap requests issued
    step4_unmaps      \* the munmap requests of step #4 of the iteration

sysinvalVars ==
    << keep, max_ops, args_counter, status, rc, exit_status, emptyStr, sockfd, mapped, held, issued,
       current_context, hash_table, ppc, wstate, wexit, wpc,
       child_table, reorder, wi, vi, rnd_values, visits, lhash, lret, permuted, wsetup, timer,
       inflight,
       zero_recorded, orphans, faults >>

hashVars == << hash_in, hash_k, hash_changed >>

mmapVars == << mpc, page_mapped, mappings, unmap_call, step4_unmaps >>

vars == << sysinvalVars, hashVars, mmapVars >>

workerVars == << wpc, child_table, reorder, wi, vi, rnd_values, visits, lhash, timer >>

NoCall == [syscall |-> 0, idx |-> 0, hash |-> 0, args |-> << >>]

ZeroArgs == [p \in 0..5 |-> ZeroW]

\* The hash table is an array of chains; it is kept as the sequence of all
\* its nodes, newest first, and the chain of a bucket is the subsequence of
\* the nodes stored under that bucket index.
Chain(table, hash) ==
    LET InBucket(h) == h.hash = hash
    IN  SelectSeq(table, InBucket)

\* hash_table_add(): a new node at the head of chain hash_table[hash];
\* nothing when calloc() returns NULL (allocated = FALSE)
hash_table_add(table, hash, syscall_num, args, type, allocated) ==
    IF ~allocated THEN table
    ELSE << [hash |-> hash, syscall |-> syscall_num, args |-> args,
             type |-> type] >> \o table

\* hash_table_free(): every chain is emptied
hash_table_free(table) == << >>

\* The walk of syscall_permute() along chain hash_table[hash]: the nodes
\* whose args compare equal (memcmp) to the current arguments, in chain order
Matches(table, hash, args) ==
    LET Same(h) == h.args = args
    IN  SelectSeq(Chain(table, hash), Same)

\* the mmap'ed, zero-filled page
InitContext ==
    [hash |-> 0, syscall |-> 0, type |-> SYSCALL_FAIL, idx |-> 0,
     counter |-> 0, skip_crashed |-> 0, skip_errno_zero |-> 0,
     crash_count |-> [j \in DOMAIN syscall_args |-> 0],
     args |-> ZeroArgs]

SysinvalInit ==
    /\ keep = TRUE
    /\ max_ops \in {0, MaxOps}
    /\ args_counter = 0
    /\ emptyStr \in EmptyStringAddrs
    /\ current_context = InitContext
    /\ hash_table = << >>
    /\ sockfd = ZeroW
    /\ mapped = {}
    /\ held = NoneHeld
    /\ issued = 0
    /\ ppc = "s_socket"
    /\ wstate = "none"
    /\ wexit = "none"
    /\ status = "none"
    /\ rc = "EXIT_SUCCESS"
    /\ exit_status = "none"
    /\ wpc = "none"
    /\ child_table = << >>
    /\ reorder = [j \in DOMAIN syscall_args |-> j]
    /\ wi = 0
    /\ vi = << >>
    /\ rnd_values = << >>
    /\ visits = << >>
    /\ lhash = 0
    /\ lret = 0
    /\ permuted = 0
    /\ wsetup = {}
    /\ timer = FALSE
    /\ inflight = NoCall
    /\ zero_recorded = {}
    /\ orphans = 0
    /\ faults = 0

\* stress_syscall_hash() is not being looked at on its own
HashIdle ==
    /\ hash_in = [syscall |-> 0, args |-> ZeroArgs]
    /\ hash_k = 0
    /\ hash_changed = 0

\* stress_mmap_child() is not running
MmapIdle ==
    /\ mpc = "none"
    /\ page_mapped = << >>
    /\ mappings = << >>
    /\ unmap_call = [mapped |-> << >>, mappings |-> << >>, requests |-> << >>]
    /\ step4_unmaps = << >>

Init == SysinvalInit /\ HashIdle /\ MmapIdle

(* ------------------------------------------------------------------ *)
(* The framework: the continue predicates and the stop signal          *)
(* ------------------------------------------------------------------ *)
\* keep_stressing_flag(): the process-wide continue flag
keep_stressing_flag == keep

\* keep_stressing(): the flag, and the counter of args below the limit
\* when a limit is configured
keep_stressing ==
    keep_stressing_flag /\ (max_ops = 0 \/ args_counter < max_ops)

StopStressing ==
    /\ keep = TRUE
    /\ ppc \notin {"p_end", "s_failed"}
    /\ keep' = FALSE
    /\ UNCHANGED << emptyStr, current_context, hash_table, ppc, wstate, wexit,
                    wpc, child_table, reorder, wi, vi, rnd_values, visits, lhash, timer, inflight, zero_recorded,
                    orphans, faults >>
    /\ UNCHANGED << max_ops, args_counter >>
    /\ UNCHANGED << status, rc, exit_status >>
    /\ UNCHANGED sockfd
    /\ UNCHANGED mapped
    /\ UNCHANGED issued
    /\ UNCHANGED lret
    /\ UNCHANGED permuted
    /\ UNCHANGED wsetup
    /\ UNCHANGED held
    /\ UNCHANGED hashVars
    /\ UNCHANGED mmapVars

(* ------------------------------------------------------------------ *)
(* Startup: stress_sysinval() up to stress_oomable_child()             *)
(* ------------------------------------------------------------------ *)
\* a descriptor socket() can return
HelperSocket == UL(3)

\* sockfds[0] = socket(AF_UNIX, SOCK_STREAM, 0); the result is stored as
\* it is, -1 on failure
StartSocket ==
    /\ ppc = "s_socket"
    /\ \E ok \in BOOLEAN :
         /\ ~ok => faults < MaxFaults
         /\ faults' = IF ok THEN faults ELSE faults + 1
         /\ sockfd' = IF ok THEN HelperSocket ELSE SL(-1)
         /\ held' = [held EXCEPT !.socket = IF ok THEN 1 ELSE 0]
    /\ ppc' = "s_mmap_context"
    /\ UNCHANGED << keep, emptyStr, current_context, hash_table, wstate,
                    wexit, inflight, zero_recorded, orphans, max_ops,
                    args_counter, status, rc, exit_status >>
    /\ UNCHANGED workerVars
    /\ UNCHANGED mapped
    /\ UNCHANGED issued
    /\ UNCHANGED lret
    /\ UNCHANGED permuted
    /\ UNCHANGED wsetup
    /\ UNCHANGED hashVars
    /\ UNCHANGED mmapVars

\* (a startup that goes on after a failed mmap)
StartAfterMmapIgnoringFailure(ok, next) == next

\* if (... == MAP_FAILED) { ...; return EXIT_NO_RESOURCE; }
StartAfterMmap(ok, next) == IF ok THEN next ELSE "s_failed"

\* one of the three mappings of stress_sysinval(): current_context,
\* small_ptr, page_ptr, in this order, each of which can fail
StartMmap(here, region, next) ==
    /\ ppc = here
    /\ \E ok \in BOOLEAN :
         /\ mapped' = IF ok THEN mapped \cup {region} ELSE mapped
         /\ held' = IF ok THEN [held EXCEPT ![region] = MapLength(region)]
                    ELSE FailureCleanup(held, region)
         /\ ppc' = StartAfterMmap(ok, next)
         /\ exit_status' =
              IF ppc' = "s_failed" THEN "EXIT_NO_RESOURCE" ELSE exit_status
    /\ UNCHANGED << keep, emptyStr, sockfd, current_context, hash_table,
                    wstate, wexit, inflight, zero_recorded, orphans, faults,
                    max_ops, args_counter, status, rc >>
    /\ UNCHANGED workerVars
    /\ UNCHANGED issued
    /\ UNCHANGED lret
    /\ UNCHANGED permuted
    /\ UNCHANGED wsetup
    /\ UNCHANGED hashVars
    /\ UNCHANGED mmapVars

StartMmapContext == StartMmap("s_mmap_context", "current_context", "s_mmap_small")

StartMmapSmall == StartMmap("s_mmap_small", "small_ptr", "s_mmap_page")

StartMmapPage == StartMmap("s_mmap_page", "page_ptr", "s_child")

\* the value tables get small_ptr and page_ptr;
\* ret = stress_oomable_child(args, NULL, stress_sysinval_child, ...)
\* starts the supervisor
StartChild ==
    /\ ppc = "s_child"
    /\ ppc' = "p_loop"
    /\ UNCHANGED << keep, emptyStr, sockfd, current_context, hash_table,
                    wstate, wexit, inflight, zero_recorded, orphans, faults,
                    max_ops, args_counter, status, rc, exit_status >>
    /\ UNCHANGED workerVars
    /\ UNCHANGED mapped
    /\ UNCHANGED issued
    /\ UNCHANGED lret
    /\ UNCHANGED permuted
    /\ UNCHANGED wsetup
    /\ UNCHANGED held
    /\ UNCHANGED hashVars
    /\ UNCHANGED mmapVars

Startup ==
    \/ StartSocket \/ StartMmapContext \/ StartMmapSmall \/ StartMmapPage
    \/ StartChild

\* the three mappings stress_sysinval() makes before it starts anything
Regions == {"current_context", "small_ptr", "page_ptr"}

(* ------------------------------------------------------------------ *)
(* Supervisor: stress_sysinval_child() and the parent side of          *)
(* stress_do_syscall()                                                 *)
(* ------------------------------------------------------------------ *)
\* (a supervisor that ends when stress_do_syscall() has returned once)
AfterDoSyscallOnce == "p_done"

\* do { (void)stress_do_syscall(args); } while (...): after the call comes
\* the loop condition
AfterDoSyscall == "p_while"

\* stress_do_syscall(): if (!keep_stressing_flag()) return 0;
SupCheckFlag ==
    /\ ppc = "p_loop"
    /\ rc' = "EXIT_SUCCESS"
    /\ ppc' = IF keep_stressing_flag THEN "p_dropcap" ELSE AfterDoSyscall
    /\ UNCHANGED << keep, emptyStr, current_context, hash_table, wstate,
                    wexit, inflight, zero_recorded, orphans, faults >>
    /\ UNCHANGED workerVars
    /\ UNCHANGED << max_ops, args_counter >>
    /\ UNCHANGED << status, exit_status >>
    /\ UNCHANGED sockfd
    /\ UNCHANGED mapped
    /\ UNCHANGED issued
    /\ UNCHANGED lret
    /\ UNCHANGED permuted
    /\ UNCHANGED wsetup
    /\ UNCHANGED held
    /\ UNCHANGED hashVars
    /\ UNCHANGED mmapVars

\* if (stress_drop_capabilities(args->name) < 0) return EXIT_NO_RESOURCE;
SupDropCap ==
    /\ ppc = "p_dropcap"
    /\ \E ok \in BOOLEAN :
         /\ ppc' = IF ok THEN "p_fork" ELSE "p_nocap"
         /\ rc' = IF ok THEN rc ELSE "EXIT_NO_RESOURCE"
    /\ UNCHANGED << keep, emptyStr, current_context, hash_table, wstate,
                    wexit, inflight, zero_recorded, orphans, faults >>
    /\ UNCHANGED workerVars
    /\ UNCHANGED << max_ops, args_counter >>
    /\ UNCHANGED << status, exit_status >>
    /\ UNCHANGED sockfd
    /\ UNCHANGED mapped
    /\ UNCHANGED issued
    /\ UNCHANGED lret
    /\ UNCHANGED permuted
    /\ UNCHANGED wsetup
    /\ UNCHANGED held
    /\ UNCHANGED hashVars
    /\ UNCHANGED mmapVars

\* return EXIT_NO_RESOURCE; after stress_drop_capabilities() failed
SupNoCap ==
    /\ ppc = "p_nocap"
    /\ ppc' = AfterDoSyscall
    /\ UNCHANGED << keep, emptyStr, current_context, hash_table, wstate,
                    wexit, inflight, zero_recorded, orphans, faults >>
    /\ UNCHANGED workerVars
    /\ UNCHANGED << max_ops, args_counter >>
    /\ UNCHANGED << status, rc, exit_status >>
    /\ UNCHANGED << sockfd, mapped, issued >>
    /\ UNCHANGED lret
    /\ UNCHANGED permuted
    /\ UNCHANGED wsetup
    /\ UNCHANGED held
    /\ UNCHANGED hashVars
    /\ UNCHANGED mmapVars

\* (a child that starts with an empty table)
ForkTableEmpty(table) == << >>

\* The table the child starts with: fork() copies the parent's memory
ForkTable(table) == table

\* (a witness page that every new worker finds cleared)
ContextAfterForkCleared(ctx) == InitContext

\* current_context is mapped MAP_SHARED | MAP_ANONYMOUS: parent and child
\* see the one page, and fork() leaves its contents as they are
ContextAfterFork(ctx) == ctx

\* pid = fork(), pid > 0: the worker starts with a copy of the parent's memory
SupFork ==
    /\ ppc = "p_fork"
    /\ Len(hash_table) <= (IF faults = 0 THEN MaxNodes ELSE MaxNodesFaulty)
    /\ ppc' = "p_wait"
    /\ wstate' = "running"
    /\ wexit' = "none"
    /\ wpc' = "w_dropcap"
    /\ wsetup' = {}
    /\ child_table' = ForkTable(hash_table)
    /\ vi' = << >>
    /\ rnd_values' = << >>
    /\ visits' = << >>
    /\ wi' = 0
    /\ timer' = FALSE
    /\ inflight' = NoCall
    /\ zero_recorded' = {}
    /\ current_context' = ContextAfterFork(current_context)
    /\ UNCHANGED << keep, emptyStr, hash_table, reorder,
                    lhash, orphans, faults >>
    /\ UNCHANGED << max_ops, args_counter >>
    /\ UNCHANGED << status, rc, exit_status >>
    /\ UNCHANGED sockfd
    /\ UNCHANGED mapped
    /\ UNCHANGED issued
    /\ UNCHANGED lret
    /\ UNCHANGED permuted
    /\ UNCHANGED held
    /\ UNCHANGED hashVars
    /\ UNCHANGED mmapVars

\* pid = fork(), pid < 0: _exit(EXIT_NO_RESOURCE) ends the supervisor
\* process; stress_oomable_child() returns in its parent
SupForkFails ==
    /\ ppc = "p_fork"
    /\ ppc' = "p_done"
    /\ exit_status' = "EXIT_NO_RESOURCE"
    /\ UNCHANGED << keep, emptyStr, current_context, hash_table, wstate,
                    wexit, inflight, zero_recorded, orphans, faults >>
    /\ UNCHANGED workerVars
    /\ UNCHANGED << max_ops, args_counter >>
    /\ UNCHANGED << status, rc >>
    /\ UNCHANGED sockfd
    /\ UNCHANGED mapped
    /\ UNCHANGED issued
    /\ UNCHANGED lret
    /\ UNCHANGED permuted
    /\ UNCHANGED wsetup
    /\ UNCHANGED held
    /\ UNCHANGED hashVars
    /\ UNCHANGED mmapVars

\* the ways a worker ends, as status reports them
WaitStatuses == {"success", "failure", "alarm", "no_resource", "killed"}

\* WEXITSTATUS(status): the exit status of a worker that has exited, and
\* the (zero) exit status bits of one ended by a signal
WEXITSTATUS(st) ==
    CASE st = "success" -> "EXIT_SUCCESS"
      [] st \in {"failure", "alarm"} -> "EXIT_FAILURE"
      [] st = "no_resource" -> "EXIT_NO_RESOURCE"
      [] st = "killed" -> "EXIT_SUCCESS"

\* ret = shim_waitpid(pid, &status, 0) returns the pid: the worker has
\* terminated and is reaped
SupWait ==
    /\ ppc = "p_wait"
    /\ wstate = "dead"
    /\ wstate' = "none"
    /\ status' = wexit
    /\ wexit' = "none"
    /\ ppc' = "p_record"
    /\ UNCHANGED << keep, emptyStr, current_context, hash_table, inflight, zero_recorded, orphans, faults >>
    /\ UNCHANGED workerVars
    /\ UNCHANGED << max_ops, args_counter >>
    /\ UNCHANGED << rc, exit_status >>
    /\ UNCHANGED sockfd
    /\ UNCHANGED mapped
    /\ UNCHANGED issued
    /\ UNCHANGED lret
    /\ UNCHANGED permuted
    /\ UNCHANGED wsetup
    /\ UNCHANGED held
    /\ UNCHANGED hashVars
    /\ UNCHANGED mmapVars

\* ret < 0 with errno EINTR (a signal interrupted the wait) or another
\* error, whatever the worker is doing
SupWaitFails ==
    /\ ppc = "p_wait"
    /\ faults < MaxFaults
    /\ faults' = faults + 1
    /\ \E e \in {"EINTR", "ECHILD"} :
         ppc' = IF e = "EINTR" THEN "p_interrupted" ELSE "p_wait_error"
    /\ UNCHANGED << keep, emptyStr, current_context, hash_table, wstate,
                    wexit, inflight, zero_recorded, orphans >>
    /\ UNCHANGED workerVars
    /\ UNCHANGED << max_ops, args_counter >>
    /\ UNCHANGED << status, rc, exit_status >>
    /\ UNCHANGED sockfd
    /\ UNCHANGED mapped
    /\ UNCHANGED issued
    /\ UNCHANGED lret
    /\ UNCHANGED permuted
    /\ UNCHANGED wsetup
    /\ UNCHANGED held
    /\ UNCHANGED hashVars
    /\ UNCHANGED mmapVars

\* if (errno != EINTR) pr_dbg(...);
\* (void)kill(pid, SIGKILL): the signal is sent; a worker that has not
\* terminated takes no further step of its own
SupKill ==
    /\ ppc \in {"p_interrupted", "p_wait_error"}
    /\ wstate' = IF wstate = "running" THEN "killed" ELSE wstate
    /\ ppc' = "p_wait2"
    /\ UNCHANGED << keep, emptyStr, current_context, hash_table, wexit,
                    inflight, zero_recorded, orphans, faults >>
    /\ UNCHANGED workerVars
    /\ UNCHANGED << max_ops, args_counter >>
    /\ UNCHANGED << status, rc, exit_status >>
    /\ UNCHANGED sockfd
    /\ UNCHANGED mapped
    /\ UNCHANGED issued
    /\ UNCHANGED lret
    /\ UNCHANGED permuted
    /\ UNCHANGED wsetup
    /\ UNCHANGED held
    /\ UNCHANGED hashVars
    /\ UNCHANGED mmapVars

\* (void)shim_waitpid(pid, &status, 0) reaps the terminated worker
SupWaitAgain ==
    /\ ppc = "p_wait2"
    /\ wstate = "dead"
    /\ wstate' = "none"
    /\ status' = wexit
    /\ wexit' = "none"
    /\ ppc' = "p_record"
    /\ UNCHANGED << keep, emptyStr, current_context, hash_table, inflight, zero_recorded, orphans, faults >>
    /\ UNCHANGED workerVars
    /\ UNCHANGED << max_ops, args_counter >>
    /\ UNCHANGED << rc, exit_status >>
    /\ UNCHANGED sockfd
    /\ UNCHANGED mapped
    /\ UNCHANGED issued
    /\ UNCHANGED lret
    /\ UNCHANGED permuted
    /\ UNCHANGED wsetup
    /\ UNCHANGED held
    /\ UNCHANGED hashVars
    /\ UNCHANGED mmapVars

\* (void)shim_waitpid(pid, &status, 0) fails: its result is not looked at.
\* A worker that has not yet terminated stays alive, unreaped; it takes no
\* further step, so its private memory is no longer followed.  No wait has
\* written status: what is read from it later is any value.
SupWaitAgainFails ==
    /\ ppc = "p_wait2"
    /\ status' \in WaitStatuses
    /\ orphans' = IF wstate = "killed" THEN orphans + 1 ELSE orphans
    /\ wstate' = "none"
    /\ wexit' = "none"
    /\ wpc' = "exited"
    /\ child_table' = << >>
    /\ vi' = << >>
    /\ rnd_values' = << >>
    /\ visits' = << >>
    /\ wi' = 0
    /\ lhash' = 0
    /\ lret' = 0
    /\ timer' = FALSE
    /\ reorder' = [j \in DOMAIN syscall_args |-> j]
    /\ zero_recorded' = {}
    /\ ppc' = "p_record"
    /\ UNCHANGED << keep, emptyStr, current_context, hash_table, inflight,
                    faults >>
    /\ UNCHANGED << max_ops, args_counter >>
    /\ UNCHANGED << rc, exit_status >>
    /\ UNCHANGED sockfd
    /\ UNCHANGED mapped
    /\ UNCHANGED issued
    /\ UNCHANGED permuted
    /\ UNCHANGED wsetup
    /\ UNCHANGED held
    /\ UNCHANGED hashVars
    /\ UNCHANGED mmapVars

\* a worker left behind terminates on its SIGKILL
OrphanDies ==
    /\ orphans > 0
    /\ orphans' = orphans - 1
    /\ UNCHANGED << keep, emptyStr, current_context, hash_table, ppc, wstate,
                    wexit, inflight, zero_recorded, faults >>
    /\ UNCHANGED workerVars
    /\ UNCHANGED << max_ops, args_counter >>
    /\ UNCHANGED << status, rc, exit_status >>
    /\ UNCHANGED sockfd
    /\ UNCHANGED mapped
    /\ UNCHANGED issued
    /\ UNCHANGED lret
    /\ UNCHANGED permuted
    /\ UNCHANGED wsetup
    /\ UNCHANGED held
    /\ UNCHANGED hashVars
    /\ UNCHANGED mmapVars

\* crash_count[idx]++ under if (idx < SIZEOF_ARRAY(syscall_args))
BumpCrashCount(cc, idx) ==
    IF idx \in DOMAIN cc THEN [cc EXCEPT ![idx] = cc[idx] + 1] ELSE cc

\* if (current_context->type == SYSCALL_CRASH) { hash_table_add(...);
\*     crash_count[idx]++; }   rc = WEXITSTATUS(status);
SupRecord ==
    /\ ppc = "p_record"
    /\ IF current_context.type = SYSCALL_CRASH
       THEN /\ \E allocated \in BOOLEAN :
                 /\ ~allocated => faults < MaxFaults
                 /\ faults' = IF allocated THEN faults ELSE faults + 1
                 /\ hash_table' =
                      hash_table_add(hash_table, current_context.hash,
                                     current_context.syscall,
                                     current_context.args, SYSCALL_CRASH,
                                     allocated)
            /\ current_context' =
                 [current_context EXCEPT
                    !.crash_count =
                        BumpCrashCount(current_context.crash_count,
                                       current_context.idx)]
            /\ status' = status
            /\ ppc' = "p_recorded"
       ELSE /\ UNCHANGED << hash_table, current_context, faults >>
            /\ status' = "none"
            /\ ppc' = AfterDoSyscall
    /\ rc' = WEXITSTATUS(status)
    /\ UNCHANGED << keep, emptyStr, wstate, wexit, inflight, zero_recorded,
                    orphans >>
    /\ UNCHANGED workerVars
    /\ UNCHANGED << max_ops, args_counter >>
    /\ UNCHANGED exit_status
    /\ UNCHANGED sockfd
    /\ UNCHANGED mapped
    /\ UNCHANGED issued
    /\ UNCHANGED lret
    /\ UNCHANGED permuted
    /\ UNCHANGED wsetup
    /\ UNCHANGED held
    /\ UNCHANGED hashVars
    /\ UNCHANGED mmapVars

\* return rc;
SupReturn ==
    /\ ppc = "p_recorded"
    /\ status' = "none"
    /\ ppc' = AfterDoSyscall
    /\ UNCHANGED << keep, emptyStr, current_context, hash_table, wstate,
                    wexit, inflight, zero_recorded, orphans, faults >>
    /\ UNCHANGED workerVars
    /\ UNCHANGED << max_ops, args_counter >>
    /\ UNCHANGED << rc, exit_status >>
    /\ UNCHANGED sockfd
    /\ UNCHANGED mapped
    /\ UNCHANGED issued
    /\ UNCHANGED lret
    /\ UNCHANGED permuted
    /\ UNCHANGED wsetup
    /\ UNCHANGED held
    /\ UNCHANGED hashVars
    /\ UNCHANGED mmapVars

\* (a supervisor that hands on the status of its last worker)
ChildStatusOfLastWorker(last_rc) == last_rc

\* the status stress_sysinval_child() returns, whatever the last
\* stress_do_syscall() returned
ChildStatus(last_rc) == "EXIT_SUCCESS"

\* stress_do_syscall(args) has returned, its value is dropped;
\* } while (keep_stressing());   return EXIT_SUCCESS;
SupWhile ==
    /\ ppc = "p_while"
    /\ ppc' = IF keep_stressing THEN "p_loop" ELSE "p_done"
    /\ exit_status' = IF keep_stressing THEN exit_status ELSE ChildStatus(rc)
    /\ UNCHANGED rc
    /\ UNCHANGED << keep, emptyStr, current_context, hash_table, wstate,
                    wexit, inflight, zero_recorded, orphans, faults >>
    /\ UNCHANGED workerVars
    /\ UNCHANGED << max_ops, args_counter >>
    /\ UNCHANGED status
    /\ UNCHANGED sockfd
    /\ UNCHANGED mapped
    /\ UNCHANGED issued
    /\ UNCHANGED lret
    /\ UNCHANGED permuted
    /\ UNCHANGED wsetup
    /\ UNCHANGED held
    /\ UNCHANGED hashVars
    /\ UNCHANGED mmapVars

\* stress_sysinval() after the supervisor loop:
\* set_counter(args, current_context->counter); ... hash_table_free();
SupShutdown ==
    /\ ppc = "p_done"
    /\ args_counter' = current_context.counter
    /\ held' = FinalRelease(held, sockfd)
    /\ hash_table' = hash_table_free(hash_table)
    /\ ppc' = "p_end"
    /\ UNCHANGED << keep, emptyStr, current_context, wstate, wexit, inflight, zero_recorded,
                    orphans, faults >>
    /\ UNCHANGED workerVars
    /\ UNCHANGED max_ops
    /\ UNCHANGED << status, rc, exit_status >>
    /\ UNCHANGED sockfd
    /\ UNCHANGED mapped
    /\ UNCHANGED issued
    /\ UNCHANGED lret
    /\ UNCHANGED permuted
    /\ UNCHANGED wsetup
    /\ UNCHANGED hashVars
    /\ UNCHANGED mmapVars

(* ------------------------------------------------------------------ *)
(* Worker: the child side of stress_do_syscall()                       *)
(* ------------------------------------------------------------------ *)
\* The worker process is gone: its private memory with it.  The shared page
\* keeps what was last written; inflight keeps the call that had not returned.
Terminate(how) ==
    /\ wstate' = "dead"
    /\ wexit' = how
    /\ wpc' = "exited"
    /\ child_table' = << >>
    /\ vi' = << >>
    /\ rnd_values' = << >>
    /\ visits' = << >>
    /\ wi' = 0
    /\ lhash' = 0
    /\ lret' = 0
    /\ timer' = FALSE
    /\ reorder' = [j \in DOMAIN syscall_args |-> j]
    /\ zero_recorded' = {}

\* a step of the worker's own code that only moves to pc
Goto(pc) ==
    /\ wpc' = pc
    /\ UNCHANGED << keep, emptyStr, hash_table, ppc, wstate, wexit, orphans, faults >>

\* The steps of the worker's setup that come before its loop
SetupSteps ==
    {"unmap_shared", "non_dumpable", "drop_capabilities", "sighandlers"}

\* A variant that goes on whatever stress_drop_capabilities() returned
DropCapabilitiesFailureIgnored(ok) == FALSE

\* if (stress_drop_capabilities(args->name) < 0)
DropCapabilitiesFailed(ok) == ~ok

\* stress_unmap_shared(); stress_process_dumpable(false);
\* if (stress_drop_capabilities(args->name) < 0) _exit(EXIT_NO_RESOURCE);
WDropCap ==
    /\ wstate = "running" /\ wpc = "w_dropcap"
    /\ \E ok \in BOOLEAN :
         IF ~DropCapabilitiesFailed(ok)
         THEN /\ wsetup' = wsetup \cup {"unmap_shared", "non_dumpable"}
                               \cup (IF ok THEN {"drop_capabilities"}
                                     ELSE {"drop_capabilities failed"})
              /\ Goto("w_sighandlers")
              /\ UNCHANGED << current_context, child_table, reorder, wi, vi, rnd_values, visits,
                              lhash, lret, timer, inflight, zero_recorded >>
         ELSE /\ wsetup' = wsetup \cup {"unmap_shared", "non_dumpable",
                                         "drop_capabilities failed"}
              /\ Terminate("no_resource")
              /\ UNCHANGED << keep, emptyStr, current_context, hash_table,
                              ppc, inflight, orphans, faults >>
    /\ UNCHANGED << max_ops, args_counter >>
    /\ UNCHANGED << status, rc, exit_status >>
    /\ UNCHANGED sockfd
    /\ UNCHANGED mapped
    /\ UNCHANGED issued
    /\ UNCHANGED permuted
    /\ UNCHANGED held
    /\ UNCHANGED hashVars
    /\ UNCHANGED mmapVars

\* for each of sigs[]: if (stress_sighandler(...) < 0) _exit(EXIT_FAILURE);
\* setpgid(); stress_parent_died_alarm(); stress_mwc_reseed();
\* for (i = 0; i < SIZEOF_ARRAY(reorder); i++) reorder[i] = i;
WSigHandlers ==
    /\ wstate = "running" /\ wpc = "w_sighandlers"
    /\ \E ok \in BOOLEAN :
         IF ok
         THEN /\ wsetup' = wsetup \cup {"sighandlers"}
              /\ reorder' = [j \in DOMAIN syscall_args |-> j]
              /\ Goto("w_while")
              /\ UNCHANGED << current_context, child_table, wi, vi, rnd_values, visits, lhash, lret,
                              timer, inflight, zero_recorded >>
         ELSE /\ wsetup' = wsetup \cup {"sighandlers failed"}
              /\ Terminate("failure")
              /\ UNCHANGED << keep, emptyStr, current_context, hash_table,
                              ppc, inflight, orphans, faults >>
    /\ UNCHANGED << max_ops, args_counter >>
    /\ UNCHANGED << status, rc, exit_status >>
    /\ UNCHANGED sockfd
    /\ UNCHANGED mapped
    /\ UNCHANGED issued
    /\ UNCHANGED permuted
    /\ UNCHANGED held
    /\ UNCHANGED hashVars
    /\ UNCHANGED mmapVars

\* (a worker whose loop over the passes never ends)
WorkerLoopForever(flag) == TRUE

\* the condition of the worker's loop over the passes
WorkerLoopCondition(flag) == flag

\* while (keep_stressing_flag()) { ... }   _exit(EXIT_SUCCESS);
WWhile ==
    /\ wstate = "running" /\ wpc = "w_while"
    /\ IF WorkerLoopCondition(keep_stressing_flag)
       THEN /\ Goto("w_shuffle")
            /\ UNCHANGED << current_context, child_table, reorder, wi, vi, rnd_values, visits,
                            lhash, lret, timer, inflight, zero_recorded >>
       ELSE /\ Terminate("success")
            /\ UNCHANGED << keep, emptyStr, current_context, hash_table, ppc,
                            inflight, orphans, faults >>
    /\ UNCHANGED << max_ops, args_counter >>
    /\ UNCHANGED << status, rc, exit_status >>
    /\ UNCHANGED sockfd
    /\ UNCHANGED mapped
    /\ UNCHANGED issued
    /\ UNCHANGED permuted
    /\ UNCHANGED wsetup
    /\ UNCHANGED held
    /\ UNCHANGED hashVars
    /\ UNCHANGED mmapVars

\* A variant that stores reorder[j] in reorder[i] and loses the old reorder[i]
SwapLosesOne(r, i, j) == [r EXCEPT ![i] = r[j]]

\* tmp = reorder[i]; reorder[i] = reorder[j]; reorder[j] = tmp;
Swap(r, i, j) == [r EXCEPT ![i] = r[j], ![j] = r[i]]

\* The orders the five rounds of swaps can leave, from the orders in rs, with
\* round n at position i next: j = stress_mwc32() % sz is any index
RECURSIVE Shuffle(_, _, _)
Shuffle(rs, n, i) ==
    IF n = 5 THEN rs
    ELSE IF i = NumSyscalls THEN Shuffle(rs, n + 1, 0)
    ELSE Shuffle({ Swap(r, i, j) : r \in rs, j \in DOMAIN syscall_args }, n, i + 1)

\* Shuffle syscall order
WShuffle ==
    /\ wstate = "running" /\ wpc = "w_shuffle"
    /\ reorder' \in Shuffle({reorder}, 0, 0)
    /\ wi' = 0
    /\ Goto("w_for")
    /\ UNCHANGED << current_context, child_table, vi, rnd_values, visits, lhash, timer, inflight, zero_recorded >>
    /\ UNCHANGED << max_ops, args_counter >>
    /\ UNCHANGED << status, rc, exit_status >>
    /\ UNCHANGED sockfd
    /\ UNCHANGED mapped
    /\ UNCHANGED issued
    /\ UNCHANGED lret
    /\ UNCHANGED permuted
    /\ UNCHANGED wsetup
    /\ UNCHANGED held
    /\ UNCHANGED hashVars
    /\ UNCHANGED mmapVars

\* for (i = 0; keep_stressing() && (i < SIZEOF_ARRAY(syscall_args)); i++)
WFor ==
    /\ wstate = "running" /\ wpc = "w_for"
    /\ Goto(IF keep_stressing /\ wi < NumSyscalls THEN "w_memset" ELSE "w_free")
    /\ UNCHANGED << current_context, child_table, reorder, wi, vi, rnd_values, visits, lhash,
                    timer, inflight, zero_recorded >>
    /\ UNCHANGED << max_ops, args_counter >>
    /\ UNCHANGED << status, rc, exit_status >>
    /\ UNCHANGED sockfd
    /\ UNCHANGED mapped
    /\ UNCHANGED issued
    /\ UNCHANGED lret
    /\ UNCHANGED permuted
    /\ UNCHANGED wsetup
    /\ UNCHANGED held
    /\ UNCHANGED hashVars
    /\ UNCHANGED mmapVars

\* (void)memset(current_context->args, 0, sizeof(current_context->args));
WMemset ==
    /\ wstate = "running" /\ wpc = "w_memset"
    /\ current_context' = [current_context EXCEPT !.args = ZeroArgs]
    /\ Goto("w_syscall")
    /\ UNCHANGED << child_table, reorder, wi, vi, rnd_values, visits, lhash, timer, inflight, zero_recorded >>
    /\ UNCHANGED << max_ops, args_counter >>
    /\ UNCHANGED << status, rc, exit_status >>
    /\ UNCHANGED sockfd
    /\ UNCHANGED mapped
    /\ UNCHANGED issued
    /\ UNCHANGED lret
    /\ UNCHANGED permuted
    /\ UNCHANGED wsetup
    /\ UNCHANGED held
    /\ UNCHANGED hashVars
    /\ UNCHANGED mmapVars

\* current_context->syscall = syscall_args[j].syscall;
WSetSyscall ==
    /\ wstate = "running" /\ wpc = "w_syscall"
    /\ current_context' =
         [current_context EXCEPT !.syscall = syscall_args[reorder[wi]].syscall]
    /\ Goto("w_idx")
    /\ UNCHANGED << child_table, reorder, wi, vi, rnd_values, visits, lhash, timer, inflight, zero_recorded >>
    /\ UNCHANGED << max_ops, args_counter >>
    /\ UNCHANGED << status, rc, exit_status >>
    /\ UNCHANGED sockfd
    /\ UNCHANGED mapped
    /\ UNCHANGED issued
    /\ UNCHANGED lret
    /\ UNCHANGED permuted
    /\ UNCHANGED wsetup
    /\ UNCHANGED held
    /\ UNCHANGED hashVars
    /\ UNCHANGED mmapVars

\* idx = &syscall_args[j] - syscall_args; current_context->idx = idx;
\* current_context->name = syscall_args[j].name;
WSetIdx ==
    /\ wstate = "running" /\ wpc = "w_idx"
    /\ current_context' = [current_context EXCEPT !.idx = reorder[wi]]
    /\ Goto("w_cap")
    /\ UNCHANGED << child_table, reorder, wi, vi, rnd_values, visits, lhash, timer, inflight, zero_recorded >>
    /\ UNCHANGED << max_ops, args_counter >>
    /\ UNCHANGED << status, rc, exit_status >>
    /\ UNCHANGED sockfd
    /\ UNCHANGED mapped
    /\ UNCHANGED issued
    /\ UNCHANGED lret
    /\ UNCHANGED permuted
    /\ UNCHANGED wsetup
    /\ UNCHANGED held
    /\ UNCHANGED hashVars
    /\ UNCHANGED mmapVars

\* (an interval timer that is not started)
ItimerNotArmed == FALSE

\* ITIMER_REAL after a successful setitimer() with it_value of 100 ms
ItimerArmed == TRUE

\* (a cap check that is off by one)
TooManyCrashesOffByOne(count) == count > MAX_CRASHES

\* current_context->crash_count[idx] >= MAX_CRASHES
TooManyCrashes(count) == count >= MAX_CRASHES

\* Ignore too many crashes from this system call: continue;
WCrashCap ==
    /\ wstate = "running" /\ wpc = "w_cap"
    /\ IF TooManyCrashes(current_context.crash_count[reorder[wi]])
       THEN /\ wi' = wi + 1
            /\ Goto("w_for")
       ELSE /\ wi' = wi
            /\ Goto("w_timer")
    /\ UNCHANGED << current_context, child_table, reorder, vi, rnd_values, visits, lhash, timer,
                    inflight, zero_recorded >>
    /\ UNCHANGED << max_ops, args_counter >>
    /\ UNCHANGED << status, rc, exit_status >>
    /\ UNCHANGED sockfd
    /\ UNCHANGED mapped
    /\ UNCHANGED issued
    /\ UNCHANGED lret
    /\ UNCHANGED permuted
    /\ UNCHANGED wsetup
    /\ UNCHANGED held
    /\ UNCHANGED hashVars
    /\ UNCHANGED mmapVars

\* A variant that does not look at what setitimer() returned
SetitimerFailureIgnored(ok) == FALSE

\* if (setitimer(ITIMER_REAL, &it, NULL) < 0)
SetitimerFailed(ok) == ~ok

\* if (setitimer(ITIMER_REAL, &it, NULL) < 0) { pr_fail(...); continue; }
\* syscall_permute(args, 0, &syscall_args[j]);
WSetTimer ==
    /\ wstate = "running" /\ wpc = "w_timer"
    /\ \E ok \in BOOLEAN :
         /\ timer' = IF ok THEN ItimerArmed ELSE timer
         /\ IF SetitimerFailed(ok)
            THEN /\ wi' = wi + 1
                 /\ vi' = vi
                 /\ rnd_values' = rnd_values
                 /\ visits' = visits
                 /\ Goto("w_for")
            ELSE /\ wi' = wi
                 /\ vi' = << >>
                 /\ rnd_values' = << >>
                 /\ visits' = << >>
                 /\ Goto("perm_enter")
    /\ UNCHANGED << current_context, child_table, reorder, lhash, inflight, zero_recorded >>
    /\ UNCHANGED << max_ops, args_counter >>
    /\ UNCHANGED << status, rc, exit_status >>
    /\ UNCHANGED sockfd
    /\ UNCHANGED mapped
    /\ UNCHANGED issued
    /\ UNCHANGED lret
    /\ UNCHANGED permuted
    /\ UNCHANGED wsetup
    /\ UNCHANGED held
    /\ UNCHANGED hashVars
    /\ UNCHANGED mmapVars

\* hash_table_free(); at the end of a pass over the system calls
WFree ==
    /\ wstate = "running" /\ wpc = "w_free"
    /\ child_table' = hash_table_free(child_table)
    /\ Goto("w_while")
    /\ UNCHANGED << current_context, reorder, wi, vi, rnd_values, visits, lhash, timer, inflight, zero_recorded >>
    /\ UNCHANGED << max_ops, args_counter >>
    /\ UNCHANGED << status, rc, exit_status >>
    /\ UNCHANGED sockfd
    /\ UNCHANGED mapped
    /\ UNCHANGED issued
    /\ UNCHANGED lret
    /\ UNCHANGED permuted
    /\ UNCHANGED wsetup
    /\ UNCHANGED held
    /\ UNCHANGED hashVars
    /\ UNCHANGED mmapVars

(* ------------------------------------------------------------------ *)
(* syscall_permute()                                                   *)
(* ------------------------------------------------------------------ *)
\* the table entry the worker is running: &syscall_args[j], j = reorder[i]
syscall_arg ==
    IF permuted = 0 THEN syscall_args[reorder[wi]]
    ELSE more_syscall_args[permuted]

\* The bound on current_context->counter that applies to the run
CallBound == IF permuted = 0 THEN MaxCalls ELSE MaxEngineCalls

\* Entry of syscall_permute(args, arg_num, syscall_arg), arg_num = Len(vi):
\* the leaf when arg_num >= num_args; args[arg_num] = 0 and return when the
\* argument type has no values; else the loop over the values starts
PermEnter ==
    /\ wstate = "running" /\ wpc = "perm_enter"
    /\ LET arg_num == Len(vi)
       IN  IF arg_num >= syscall_arg.num_args
           THEN /\ Goto("leaf_lookup")
                /\ visits' = Append(visits, vi)
                /\ UNCHANGED << current_context, vi, rnd_values >>
           ELSE \E rnd \in RndDraws(syscall_arg.args[arg_num]) :
                IF Len(Values(syscall_arg.args[arg_num], rnd,
                              emptyStr, sockfd)) = 0
                THEN /\ current_context' =
                          [current_context EXCEPT !.args[arg_num] = ZeroW]
                     /\ vi' = vi
                     /\ rnd_values' = rnd_values
                     /\ visits' = visits
                     /\ Goto("perm_return")
                ELSE /\ vi' = Append(vi, 1)
                     /\ rnd_values' = Append(rnd_values, rnd)
                     /\ visits' = visits
                     /\ Goto("perm_loop")
                     /\ UNCHANGED current_context
    /\ UNCHANGED << child_table, reorder, wi, lhash, timer, inflight, zero_recorded >>
    /\ UNCHANGED << max_ops, args_counter >>
    /\ UNCHANGED << status, rc, exit_status >>
    /\ UNCHANGED sockfd
    /\ UNCHANGED mapped
    /\ UNCHANGED issued
    /\ UNCHANGED lret
    /\ UNCHANGED permuted
    /\ UNCHANGED wsetup
    /\ UNCHANGED held
    /\ UNCHANGED hashVars
    /\ UNCHANGED mmapVars

\* for (i = 0; i < num_values; i++) { current_context->args[arg_num] =
\* values[i]; syscall_permute(args, arg_num + 1, syscall_arg); ... }
PermLoop ==
    /\ wstate = "running" /\ wpc = "perm_loop"
    /\ LET arg_num == Len(vi) - 1
           i == vi[Len(vi)]
           values == Values(syscall_arg.args[arg_num], rnd_values[Len(vi)],
                            emptyStr, sockfd)
       IN  IF i <= Len(values)
           THEN /\ current_context' =
                     [current_context EXCEPT !.args[arg_num] = values[i]]
                /\ vi' = vi
                /\ rnd_values' = rnd_values
                /\ visits' = visits
                /\ Goto("perm_enter")
           ELSE /\ vi' = SubSeq(vi, 1, Len(vi) - 1)
                /\ rnd_values' = SubSeq(rnd_values, 1, Len(vi) - 1)
                /\ visits' = visits
                /\ Goto("perm_return")
                /\ UNCHANGED current_context
    /\ UNCHANGED << child_table, reorder, wi, lhash, timer, inflight, zero_recorded >>
    /\ UNCHANGED << max_ops, args_counter >>
    /\ UNCHANGED << status, rc, exit_status >>
    /\ UNCHANGED sockfd
    /\ UNCHANGED mapped
    /\ UNCHANGED issued
    /\ UNCHANGED lret
    /\ UNCHANGED permuted
    /\ UNCHANGED wsetup
    /\ UNCHANGED held
    /\ UNCHANGED hashVars
    /\ UNCHANGED mmapVars

\* A variant of the loop's step that passes over every other value
NextIndexSkipsOne(i) == i + 2

\* i++ of for (i = 0; i < num_values; i++)
NextIndex(i) == i + 1

\* A variant of the loop body that leaves the value in place
ResetArgSkipped(a, arg_num) == a

\* current_context->args[arg_num] = 0 after the recursive call
ResetArg(a, arg_num) == [a EXCEPT ![arg_num] = ZeroW]

\* A call of syscall_permute() has returned: to the loop over the system
\* calls (i++), or to the caller's loop, which runs
\* current_context->args[arg_num] = 0; i++
PermReturn ==
    /\ wstate = "running" /\ wpc = "perm_return"
    /\ IF Len(vi) = 0
       THEN /\ wi' = wi + 1
            /\ vi' = vi
            /\ rnd_values' = rnd_values
            /\ visits' = << >>
            /\ Goto("w_for")
            /\ UNCHANGED current_context
       ELSE /\ current_context' =
                 [current_context EXCEPT !.args = ResetArg(@, Len(vi) - 1)]
            /\ vi' = [vi EXCEPT ![Len(vi)] = NextIndex(@)]
            /\ rnd_values' = rnd_values
            /\ visits' = visits
            /\ wi' = wi
            /\ Goto("perm_loop")
    /\ UNCHANGED << child_table, reorder, lhash, timer, inflight, zero_recorded >>
    /\ UNCHANGED << max_ops, args_counter >>
    /\ UNCHANGED << status, rc, exit_status >>
    /\ UNCHANGED sockfd
    /\ UNCHANGED mapped
    /\ UNCHANGED issued
    /\ UNCHANGED lret
    /\ UNCHANGED permuted
    /\ UNCHANGED wsetup
    /\ UNCHANGED held
    /\ UNCHANGED hashVars
    /\ UNCHANGED mmapVars

\* A variant whose case SYSCALL_CRASH falls through into the next case
SkipCountedFallThrough(ctx, type) ==
    IF type = SYSCALL_CRASH
    THEN [ctx EXCEPT !.skip_crashed = @ + 1, !.skip_errno_zero = @ + 1]
    ELSE IF type = SYSCALL_ERRNO_ZERO
    THEN [ctx EXCEPT !.skip_errno_zero = @ + 1]
    ELSE ctx

\* switch (h->type) { case SYSCALL_CRASH: skip_crashed++; break;
\*   case SYSCALL_ERRNO_ZERO: skip_errno_zero++; break; default: break; }
SkipCounted(ctx, type) ==
    IF type = SYSCALL_CRASH
    THEN [ctx EXCEPT !.skip_crashed = @ + 1]
    ELSE IF type = SYSCALL_ERRNO_ZERO
    THEN [ctx EXCEPT !.skip_errno_zero = @ + 1]
    ELSE ctx

\* The leaf: hash = stress_syscall_hash(...); walk the chain; on the first
\* node whose args match, count the skip by the node's type and return
LeafLookup ==
    /\ wstate = "running" /\ wpc = "leaf_lookup"
    /\ LET hash == stress_syscall_hash(syscall_arg.syscall, current_context.args)
           found == Matches(child_table, hash, current_context.args)
       IN  IF found # << >>
           THEN /\ found[1].type = SYSCALL_CRASH
                      => current_context.skip_crashed < MaxSkips
                /\ found[1].type = SYSCALL_ERRNO_ZERO
                      => current_context.skip_errno_zero < MaxSkips
                /\ current_context' = SkipCounted(current_context, found[1].type)
                /\ lhash' = lhash
                /\ Goto("perm_return")
           ELSE /\ lhash' = hash
                /\ Goto("leaf_counter")
                /\ UNCHANGED current_context
    /\ UNCHANGED << child_table, reorder, wi, vi, rnd_values, visits, timer, inflight, zero_recorded >>
    /\ UNCHANGED << max_ops, args_counter >>
    /\ UNCHANGED << status, rc, exit_status >>
    /\ UNCHANGED sockfd
    /\ UNCHANGED mapped
    /\ UNCHANGED issued
    /\ UNCHANGED lret
    /\ UNCHANGED permuted
    /\ UNCHANGED wsetup
    /\ UNCHANGED held
    /\ UNCHANGED hashVars
    /\ UNCHANGED mmapVars

\* errno = 0; current_context->counter++;
LeafCount ==
    /\ wstate = "running" /\ wpc = "leaf_counter"
    /\ current_context.counter < CallBound
    /\ current_context' = [current_context EXCEPT !.counter = @ + 1]
    /\ Goto("leaf_hash")
    /\ UNCHANGED << child_table, reorder, wi, vi, rnd_values, visits, lhash, timer, inflight, zero_recorded >>
    /\ UNCHANGED << max_ops, args_counter >>
    /\ UNCHANGED << status, rc, exit_status >>
    /\ UNCHANGED sockfd
    /\ UNCHANGED mapped
    /\ UNCHANGED issued
    /\ UNCHANGED lret
    /\ UNCHANGED permuted
    /\ UNCHANGED wsetup
    /\ UNCHANGED held
    /\ UNCHANGED hashVars
    /\ UNCHANGED mmapVars

\* current_context->hash = hash;
LeafSetHash ==
    /\ wstate = "running" /\ wpc = "leaf_hash"
    /\ current_context' = [current_context EXCEPT !.hash = lhash]
    /\ Goto("leaf_type")
    /\ UNCHANGED << child_table, reorder, wi, vi, rnd_values, visits, lhash, timer, inflight, zero_recorded >>
    /\ UNCHANGED << max_ops, args_counter >>
    /\ UNCHANGED << status, rc, exit_status >>
    /\ UNCHANGED sockfd
    /\ UNCHANGED mapped
    /\ UNCHANGED issued
    /\ UNCHANGED lret
    /\ UNCHANGED permuted
    /\ UNCHANGED wsetup
    /\ UNCHANGED held
    /\ UNCHANGED hashVars
    /\ UNCHANGED mmapVars

\* (a worker that marks the call as failed before making it)
TypeBeforeCallFail == SYSCALL_FAIL

\* what the worker stores in current_context->type before the call
TypeBeforeCall == SYSCALL_CRASH

\* current_context->type = SYSCALL_CRASH;   Assume it will crash
LeafSetCrash ==
    /\ wstate = "running" /\ wpc = "leaf_type"
    /\ current_context' = [current_context EXCEPT !.type = TypeBeforeCall]
    /\ Goto("leaf_call")
    /\ UNCHANGED << child_table, reorder, wi, vi, rnd_values, visits, lhash, timer, inflight, zero_recorded >>
    /\ UNCHANGED << max_ops, args_counter >>
    /\ UNCHANGED << status, rc, exit_status >>
    /\ UNCHANGED sockfd
    /\ UNCHANGED mapped
    /\ UNCHANGED issued
    /\ UNCHANGED lret
    /\ UNCHANGED permuted
    /\ UNCHANGED wsetup
    /\ UNCHANGED held
    /\ UNCHANGED hashVars
    /\ UNCHANGED mmapVars

\* ret = syscall(syscall_num, current_context->args[0], ..., args[5]): the
\* worker enters the kernel with these values
LeafCall ==
    /\ wstate = "running" /\ wpc = "leaf_call"
    /\ inflight' = [syscall |-> syscall_arg.syscall, idx |-> reorder[wi],
                    hash |-> lhash, args |-> current_context.args]
    /\ issued' = issued + 1
    /\ Goto("in_call")
    /\ UNCHANGED << current_context, child_table, reorder, wi, vi, rnd_values, visits, lhash,
                    timer, zero_recorded >>
    /\ UNCHANGED << max_ops, args_counter >>
    /\ UNCHANGED << status, rc, exit_status >>
    /\ UNCHANGED sockfd
    /\ UNCHANGED mapped
    /\ UNCHANGED lret
    /\ UNCHANGED permuted
    /\ UNCHANGED wsetup
    /\ UNCHANGED held
    /\ UNCHANGED hashVars
    /\ UNCHANGED mmapVars

\* What the kernel may do with a call of the model: chdir returns 0 or
\* fails (-1, errno set), chroot fails, ends the worker or never returns,
\* munlock(page_ptr, ~0UL) returns 0 (the length wraps to zero pages), and
\* every other call fails
KernelReturns(syscall_num, a) ==
    IF syscall_num = 80 THEN {0, -1}
    ELSE IF syscall_num = 150 /\ a[0] = PagePtr /\ a[1] = SL(-1) THEN {0}
    ELSE {-1}
KernelCrashes(syscall_num) == syscall_num = 161
KernelBlocks(syscall_num) == syscall_num = 161

\* A variant that takes every returned call for one that returned 0
RetIsAnything(ret) == TRUE

\* if (ret == 0): the test that decides whether the returned call is recorded
RetIsZero(ret) == ret = 0

\* The call returns ret (0, or anything else: -1 with errno set);
\* if (ret == 0) hash_table_add(hash, syscall_num, args, SYSCALL_ERRNO_ZERO);
SyscallReturns ==
    /\ wstate = "running" /\ wpc = "in_call"
    /\ \E ret \in KernelReturns(syscall_arg.syscall, current_context.args) :
         /\ lret' = ret
         /\ IF RetIsZero(ret)
            THEN \E allocated \in BOOLEAN :
                 /\ ~allocated => faults < MaxFaults
                 /\ faults' = IF allocated THEN faults ELSE faults + 1
                 /\ child_table' =
                      hash_table_add(child_table, lhash, syscall_arg.syscall,
                                     current_context.args, SYSCALL_ERRNO_ZERO,
                                     allocated)
                 /\ zero_recorded' =
                      IF allocated
                      THEN zero_recorded \cup
                              { [syscall |-> syscall_arg.syscall,
                                 args |-> current_context.args] }
                      ELSE zero_recorded
            ELSE UNCHANGED << child_table, zero_recorded, faults >>
    /\ inflight' = NoCall
    /\ wpc' = "leaf_fail"
    /\ UNCHANGED << keep, emptyStr, current_context, hash_table, ppc, wstate,
                    wexit, reorder, wi, vi, rnd_values, visits, lhash, timer, orphans >>
    /\ UNCHANGED << max_ops, args_counter >>
    /\ UNCHANGED << status, rc, exit_status >>
    /\ UNCHANGED sockfd
    /\ UNCHANGED mapped
    /\ UNCHANGED issued
    /\ UNCHANGED permuted
    /\ UNCHANGED wsetup
    /\ UNCHANGED held
    /\ UNCHANGED hashVars
    /\ UNCHANGED mmapVars

\* The call ends the worker: a fatal signal raised by the call (the
\* handlers of sigs[] run _exit(1)), or a kill by the kernel
SyscallCrashes ==
    /\ wstate = "running" /\ wpc = "in_call"
    /\ KernelCrashes(syscall_arg.syscall)
    /\ Terminate("failure")
    /\ UNCHANGED << keep, emptyStr, current_context, hash_table, ppc,
                    inflight, orphans, faults >>
    /\ UNCHANGED << max_ops, args_counter >>
    /\ UNCHANGED << status, rc, exit_status >>
    /\ UNCHANGED sockfd
    /\ UNCHANGED mapped
    /\ UNCHANGED issued
    /\ UNCHANGED permuted
    /\ UNCHANGED wsetup
    /\ UNCHANGED held
    /\ UNCHANGED hashVars
    /\ UNCHANGED mmapVars

\* The call does not return: the worker sleeps in the kernel
SyscallBlocks ==
    /\ wstate = "running" /\ wpc = "in_call"
    /\ KernelBlocks(syscall_arg.syscall)
    /\ Goto("blocked")
    /\ UNCHANGED << current_context, child_table, reorder, wi, vi, rnd_values, visits, lhash,
                    timer, inflight, zero_recorded, max_ops, args_counter >>
    /\ UNCHANGED << status, rc, exit_status >>
    /\ UNCHANGED sockfd
    /\ UNCHANGED mapped
    /\ UNCHANGED issued
    /\ UNCHANGED lret
    /\ UNCHANGED permuted
    /\ UNCHANGED wsetup
    /\ UNCHANGED held
    /\ UNCHANGED hashVars
    /\ UNCHANGED mmapVars

\* current_context->type = SYSCALL_FAIL;   it just failed
\* (the leaf returns: its locals hash and ret are gone)
LeafSetFail ==
    /\ wstate = "running" /\ wpc = "leaf_fail"
    /\ current_context' = [current_context EXCEPT !.type = SYSCALL_FAIL]
    /\ lhash' = 0
    /\ lret' = 0
    /\ Goto("perm_return")
    /\ UNCHANGED << child_table, reorder, wi, vi, rnd_values, visits, timer, inflight,
                    zero_recorded >>
    /\ UNCHANGED << max_ops, args_counter >>
    /\ UNCHANGED << status, rc, exit_status >>
    /\ UNCHANGED sockfd
    /\ UNCHANGED mapped
    /\ UNCHANGED issued
    /\ UNCHANGED permuted
    /\ UNCHANGED wsetup
    /\ UNCHANGED held
    /\ UNCHANGED hashVars
    /\ UNCHANGED mmapVars

(* ------------------------------------------------------------------ *)
(* Signals                                                             *)
(* ------------------------------------------------------------------ *)
\* The interval timer armed by setitimer() expires (it_value and
\* it_interval are 100 ms): stress_inval_handler() runs _exit(1), wherever
\* the worker is
TimerExpires ==
    /\ wstate = "running" /\ timer
    /\ faults < MaxFaults
    /\ faults' = faults + 1
    /\ Terminate("alarm")
    /\ UNCHANGED << keep, emptyStr, current_context, hash_table, ppc,
                    inflight, orphans >>
    /\ UNCHANGED << max_ops, args_counter >>
    /\ UNCHANGED << status, rc, exit_status >>
    /\ UNCHANGED sockfd
    /\ UNCHANGED mapped
    /\ UNCHANGED issued
    /\ UNCHANGED permuted
    /\ UNCHANGED wsetup
    /\ UNCHANGED held
    /\ UNCHANGED hashVars
    /\ UNCHANGED mmapVars

\* The interval timer expires while the worker sleeps in a call that does
\* not return: SIGALRM interrupts the call, stress_inval_handler() runs
\* _exit(1)
AlarmEndsBlockedCall ==
    /\ wstate = "running" /\ wpc = "blocked" /\ timer
    /\ Terminate("alarm")
    /\ UNCHANGED << keep, emptyStr, current_context, hash_table, ppc,
                    inflight, orphans, faults, max_ops, args_counter >>
    /\ UNCHANGED << status, rc, exit_status >>
    /\ UNCHANGED sockfd
    /\ UNCHANGED mapped
    /\ UNCHANGED issued
    /\ UNCHANGED permuted
    /\ UNCHANGED wsetup
    /\ UNCHANGED held
    /\ UNCHANGED hashVars
    /\ UNCHANGED mmapVars

\* A SIGKILL from outside (the out-of-memory killer, an operator) ends the
\* worker wherever it is
WorkerKilled ==
    /\ wstate = "running"
    /\ faults < MaxFaults
    /\ faults' = faults + 1
    /\ Terminate("killed")
    /\ UNCHANGED << keep, emptyStr, current_context, hash_table, ppc,
                    inflight, orphans >>
    /\ UNCHANGED << max_ops, args_counter >>
    /\ UNCHANGED << status, rc, exit_status >>
    /\ UNCHANGED sockfd
    /\ UNCHANGED mapped
    /\ UNCHANGED issued
    /\ UNCHANGED permuted
    /\ UNCHANGED wsetup
    /\ UNCHANGED held
    /\ UNCHANGED hashVars
    /\ UNCHANGED mmapVars

\* the worker the supervisor has sent SIGKILL to terminates
KilledWorkerDies ==
    /\ wstate = "killed"
    /\ Terminate("killed")
    /\ UNCHANGED << keep, emptyStr, current_context, hash_table, ppc,
                    inflight, orphans, faults >>
    /\ UNCHANGED << max_ops, args_counter >>
    /\ UNCHANGED << status, rc, exit_status >>
    /\ UNCHANGED sockfd
    /\ UNCHANGED mapped
    /\ UNCHANGED issued
    /\ UNCHANGED permuted
    /\ UNCHANGED wsetup
    /\ UNCHANGED held
    /\ UNCHANGED hashVars
    /\ UNCHANGED mmapVars

Supervisor ==
    \/ SupCheckFlag \/ SupDropCap \/ SupNoCap \/ SupFork \/ SupForkFails
    \/ SupWait \/ SupWaitFails \/ SupKill \/ SupWaitAgain \/ SupWaitAgainFails
    \/ SupRecord \/ SupReturn \/ SupWhile \/ SupShutdown

WorkerSetup == WDropCap \/ WSigHandlers

WorkerLoop ==
    \/ WWhile \/ WShuffle \/ WFor \/ WMemset \/ WSetSyscall \/ WSetIdx
    \/ WCrashCap \/ WSetTimer \/ WFree

Permute ==
    \/ PermEnter \/ PermLoop \/ PermReturn \/ LeafLookup \/ LeafCount
    \/ LeafSetHash \/ LeafSetCrash \/ LeafCall \/ SyscallReturns
    \/ SyscallCrashes \/ SyscallBlocks \/ LeafSetFail

Worker == WorkerSetup \/ WorkerLoop \/ Permute

Signals ==
    \/ TimerExpires \/ AlarmEndsBlockedCall \/ WorkerKilled
    \/ KilledWorkerDies \/ OrphanDies

Next == StopStressing \/ Startup \/ Supervisor \/ Worker \/ Signals

Spec == Init /\ [][Next]_vars

\* syscall_permute() taken on its own: a worker that has passed its setup
\* and armed the timer calls syscall_permute(args, 0, d) for one of the
\* entries d of more_syscall_args, and no signal arrives.  The table it
\* inherited is empty, or holds the node of a munlock call on which an
\* earlier worker was ended.
InheritedTables(k) ==
    { << >> } \cup
    IF more_syscall_args[k].syscall # 150 THEN {}
    ELSE LET a == [ZeroArgs EXCEPT ![0] = SmallPtrLast, ![1] = SL(-1)]
         IN  { << [hash |-> stress_syscall_hash(150, a), syscall |-> 150,
                   args |-> a, type |-> SYSCALL_CRASH] >> }

EngineInit ==
    /\ keep = TRUE
    /\ max_ops = 0
    /\ args_counter = 0
    /\ emptyStr \in EmptyStringAddrs
    /\ sockfd \in {HelperSocket, SL(-1)}
    /\ mapped = Regions
    /\ held = AllHeld(sockfd)
    /\ issued = 0
    /\ ppc = "p_wait"
    /\ wstate = "running"
    /\ wexit = "none"
    /\ status = "none"
    /\ rc = "EXIT_SUCCESS"
    /\ exit_status = "none"
    /\ wpc = "perm_enter"
    /\ permuted \in 1..Len(more_syscall_args)
    /\ hash_table \in InheritedTables(permuted)
    /\ child_table = hash_table
    /\ current_context =
         [InitContext EXCEPT !.syscall = more_syscall_args[permuted].syscall]
    /\ reorder = [j \in DOMAIN syscall_args |-> j]
    /\ wi = 0
    /\ vi = << >>
    /\ rnd_values = << >>
    /\ visits = << >>
    /\ lhash = 0
    /\ lret = 0
    /\ wsetup = SetupSteps
    /\ timer = ItimerArmed
    /\ inflight = NoCall
    /\ zero_recorded = {}
    /\ orphans = 0
    /\ faults = 0
    /\ HashIdle
    /\ MmapIdle

EngineSpec == EngineInit /\ [][Permute]_vars

(* ------------------------------------------------------------------ *)
(* stress_syscall_hash() on its own: one tuple and its rearrangements  *)
(* ------------------------------------------------------------------ *)
\* Arguments of stress_syscall_hash(): the number of chdir or of chroot and
\* six pairwise distinct words, taken from the value tables, from what case
\* ARG_RND can draw, and from the words whose bits repeat with period 2 or 4
\* (0x5555555555555555, 0xaaaaaaaaaaaaaaaa, 0x3333333333333333 and
\* 0xcccccccccccccccc besides 0 and -1)
HashInputs ==
    { [syscall |-> n, args |-> [p \in 0..5 |-> a[p + 1]]] :
        n \in {80, 161},
        a \in { << ZeroW, SL(-1), SL(INT_MAX), SL(INT_MIN), UL(4096),
                   UL(8192) >>,
                << ZeroW, SL(-1), SL(-2), SL(-100), SmallPtrLast, PagePtr >>,
                << Word(4660, 22136, 39612, 57072), SHR_UL(UL(1), 20),
                   SmallPtr, PagePtr, SL(-1), ZeroW >>,
                << ZeroW, SL(-1),
                   Word(21845, 21845, 21845, 21845),
                   Word(43690, 43690, 43690, 43690),
                   Word(13107, 13107, 13107, 13107),
                   Word(52428, 52428, 52428, 52428) >> } }

RECURSIVE Factorial(_)
Factorial(n) == IF n = 0 THEN 1 ELSE n * Factorial(n - 1)

\* The k-th arrangement of items in lexicographic order, k from 0 (the
\* given order) to Factorial(Len(items)) - 1
RECURSIVE KthArrangement(_, _)
KthArrangement(k, items) ==
    IF items = << >> THEN << >>
    ELSE LET f == Factorial(Len(items) - 1)
             d == (k \div f) + 1
         IN  << items[d] >> \o
             KthArrangement(k % f, SubSeq(items, 1, d - 1) \o
                                   SubSeq(items, d + 1, Len(items)))

HashInit ==
    /\ SysinvalInit /\ max_ops = 0 /\ emptyStr = Word(50224, 93, 0, 0)
    /\ hash_in \in HashInputs
    /\ hash_k = 0
    /\ hash_changed = 0
    /\ MmapIdle

\* stress_syscall_hash() is applied to the next rearrangement of the words
\* and its result compared with that of the given order
HashRearranged ==
    /\ hash_k < Factorial(6) - 1
    /\ LET order == KthArrangement(hash_k + 1, << 0, 1, 2, 3, 4, 5 >>)
           hash == stress_syscall_hash(hash_in.syscall,
                     [p \in 0..5 |-> hash_in.args[order[p + 1]]])
       IN  hash_changed' =
              IF hash # stress_syscall_hash(hash_in.syscall, hash_in.args)
              THEN hash_changed + 1 ELSE hash_changed
    /\ hash_k' = hash_k + 1
    /\ UNCHANGED hash_in
    /\ UNCHANGED sysinvalVars
    /\ UNCHANGED mmapVars

HashSpec == HashInit /\ [][HashRearranged]_vars

(* ------------------------------------------------------------------ *)
(* The mmap stressor (src/stress-mmap.c): the loop of                  *)
(* stress_mmap_child() around stress_mmap_fast_unmap()                 *)
(* ------------------------------------------------------------------ *)
\* pages = sz / page_size of the run
MmapPages == 3

\* the flags of mapped[]: a page that is mapped, and one whose mapping at
\* its old address failed (1 and 2 in the headers of the project)
PAGE_MAPPED == 1
PAGE_MAPPED_FAIL == 2

\* addresses context->mmap() can return for the buffer of sz bytes
MmapBufs == { 16 * page_size, 64 * page_size }

PageIndexes == 0..(MmapPages - 1)

\* memset(mapped, 0, pages)
ClearedFlags == [n \in PageIndexes |-> 0]

\* the second loop of stress_mmap_fast_unmap() from index i on, with the
\* run munmap_start / munmap_size collected so far and the requests issued
\* so far, followed by the last request
RECURSIVE FastUnmapFrom(_, _, _, _, _, _)
FastUnmapFrom(i, munmap_start, munmap_size, maps, mflags, requests) ==
    IF i >= MmapPages
    THEN IF munmap_start # 0 /\ munmap_size > 0
         THEN Append(requests, [start |-> munmap_start, len |-> munmap_size])
         ELSE requests
    ELSE IF mflags[i] = PAGE_MAPPED
    THEN IF maps[i] = munmap_start + munmap_size
         THEN FastUnmapFrom(i + 1, munmap_start, munmap_size + page_size,
                            maps, mflags, requests)
         ELSE FastUnmapFrom(i + 1, maps[i], page_size, maps, mflags,
                            Append(requests, [start |-> munmap_start,
                                              len |-> munmap_size]))
    ELSE FastUnmapFrom(i + 1, munmap_start, munmap_size, maps, mflags,
                       requests)

\* stress_mmap_fast_unmap(mappings, mapped, pages, page_size): the munmap
\* requests it issues, in order.  The first loop stops at the first page
\* with PAGE_MAPPED and sets the run to that page; the second loop goes on
\* from the same index.
stress_mmap_fast_unmap(maps, mflags) ==
    LET found == { n \in PageIndexes : mflags[n] = PAGE_MAPPED }
    IN  IF found = {} THEN << >>
        ELSE LET i == CHOOSE n \in found : \A m \in found : n <= m
             IN  FastUnmapFrom(i, maps[i], page_size, maps, mflags, << >>)

MmapInit ==
    /\ SysinvalInit /\ max_ops = 0 /\ emptyStr = Word(50224, 93, 0, 0)
    /\ HashIdle
    /\ mpc = "retry"
    /\ page_mapped = ClearedFlags
    /\ mappings = [n \in PageIndexes |-> 0]
    /\ unmap_call = [mapped |-> ClearedFlags,
                     mappings |-> [n \in PageIndexes |-> 0],
                     requests |-> << >>]
    /\ step4_unmaps = << >>

\* retry: ... buf = context->mmap(hint, sz, ...) has succeeded (a failed
\* one comes back here); every page is flagged PAGE_MAPPED and
\* mappings[n] = buf + n * page_size.  With the continue flag cleared the
\* loop is left.
MmapMap ==
    /\ mpc = "retry"
    /\ \/ /\ mpc' = "done"
          /\ UNCHANGED << page_mapped, mappings >>
       \/ \E buf \in MmapBufs :
             /\ page_mapped' = [n \in PageIndexes |-> PAGE_MAPPED]
             /\ mappings' = [n \in PageIndexes |-> buf + (n * page_size)]
             /\ mpc' = "step1"
    /\ step4_unmaps' = << >>
    /\ UNCHANGED unmap_call
    /\ UNCHANGED << sysinvalVars, hashVars >>

\* Step #1 leaves the flags as they are; it ends with goto cleanup when the
\* continue flag is cleared, else with stress_mmap_fast_unmap() and the
\* munmap of the whole buffer
MmapStep1 ==
    /\ mpc = "step1"
    /\ \/ /\ mpc' = "cleanup"
          /\ UNCHANGED << page_mapped, unmap_call >>
       \/ /\ unmap_call' =
               [mapped |-> page_mapped, mappings |-> mappings,
                requests |-> stress_mmap_fast_unmap(mappings, page_mapped)]
          /\ page_mapped' = ClearedFlags
          /\ mpc' = "step2"
    /\ UNCHANGED << mappings, step4_unmaps >>
    /\ UNCHANGED << sysinvalVars, hashVars >>

\* Step #2, one page of the shuffled order with !mapped[page]: it is mapped
\* again at its old address (PAGE_MAPPED) or the mapping fails
\* (PAGE_MAPPED_FAIL, mappings[page] = NULL); goto cleanup when the
\* continue flag is cleared, and on to cleanup after the last page
MmapStep2 ==
    /\ mpc = "step2"
    /\ LET todo == { n \in PageIndexes : page_mapped[n] = 0 }
       IN  IF todo = {}
           THEN /\ mpc' = "cleanup"
                /\ UNCHANGED << page_mapped, mappings >>
           ELSE \E page \in todo, ok \in BOOLEAN, continue \in BOOLEAN :
                  /\ page_mapped' =
                       [page_mapped EXCEPT
                          ![page] = IF ok THEN PAGE_MAPPED
                                    ELSE PAGE_MAPPED_FAIL]
                  /\ mappings' =
                       [mappings EXCEPT ![page] = IF ok THEN @ ELSE 0]
                  /\ mpc' = IF continue THEN "step2" ELSE "cleanup"
    /\ UNCHANGED << unmap_call, step4_unmaps >>
    /\ UNCHANGED << sysinvalVars, hashVars >>

\* cleanup: Step #3, stress_mmap_fast_unmap(mappings, mapped, pages,
\* page_size), which ends with memset(mapped, 0, pages)
MmapStep3 ==
    /\ mpc = "cleanup"
    /\ unmap_call' =
         [mapped |-> page_mapped, mappings |-> mappings,
          requests |-> stress_mmap_fast_unmap(mappings, page_mapped)]
    /\ page_mapped' = ClearedFlags
    /\ mpc' = "step4"
    /\ UNCHANGED << mappings, step4_unmaps >>
    /\ UNCHANGED << sysinvalVars, hashVars >>

\* Step #4: for the first n with mapped[n] & PAGE_MAPPED, munmap of
\* mappings[n] with length 0 and with length page_size
MmapStep4 ==
    /\ mpc = "step4"
    /\ LET found == { n \in PageIndexes :
                        BitAnd(page_mapped[n], PAGE_MAPPED) # 0 }
       IN  step4_unmaps' =
             IF found = {} THEN << >>
             ELSE LET n == CHOOSE k \in found : \A m \in found : k <= m
                  IN  << [start |-> mappings[n], len |-> 0],
                         [start |-> mappings[n], len |-> page_size] >>
    /\ mpc' = "step5"
    /\ UNCHANGED << page_mapped, mappings, unmap_call >>
    /\ UNCHANGED << sysinvalVars, hashVars >>

\* Steps #5 to #10 touch neither mapped[] nor mappings[]; then
\* while (stress_continue(args))
MmapLoop ==
    /\ mpc = "step5"
    /\ mpc' \in {"retry", "done"}
    /\ UNCHANGED << page_mapped, mappings, unmap_call, step4_unmaps >>
    /\ UNCHANGED << sysinvalVars, hashVars >>

MmapNext ==
    MmapMap \/ MmapStep1 \/ MmapStep2 \/ MmapStep3 \/ MmapStep4 \/ MmapLoop

MmapSpec == MmapInit /\ [][MmapNext]_vars

\* Scheduling: the kernel delivers the signals it has pending (the timer of
\* a sleeping worker expires, a worker sent SIGKILL terminates), and the
\* supervisor, a process of its own, takes its next step: a wait for a
\* worker that has terminated returns, and the code after it runs.  The
\* code of stress_sysinval() after the supervisor runs too.
Fairness ==
    /\ WF_vars(AlarmEndsBlockedCall)
    /\ WF_vars(KilledWorkerDies)
    /\ WF_vars(SupWait)
    /\ WF_vars(SupKill)
    /\ WF_vars(SupWaitAgain)
    /\ WF_vars(SupRecord)
    /\ WF_vars(SupReturn)
    /\ WF_vars(SupWhile)
    /\ WF_vars(SupCheckFlag)
    /\ WF_vars(SupDropCap)
    /\ WF_vars(SupNoCap)
    /\ WF_vars(SupFork \/ SupForkFails)
    /\ WF_vars(SupShutdown)

\* runs without ops limit, of a binary with the first of EmptyStringAddrs
LiveInit == Init /\ max_ops = 0 /\ emptyStr = Word(50224, 93, 0, 0)

LiveSpec == LiveInit /\ [][Next]_vars /\ Fairness

\* The worker's own code has a step to take: the worker runs, it is not
\* asleep in a call that does not return, and it does not stand at a leaf
\* that the bounds of the model (MaxCalls, MaxSkips) keep it from running
WorkerCanStep ==
    /\ wstate = "running"
    /\ wpc # "blocked"
    /\ wpc = "leaf_counter" => current_context.counter < CallBound
    /\ wpc = "leaf_lookup" =>
          LET found == Matches(child_table,
                               stress_syscall_hash(syscall_arg.syscall,
                                                   current_context.args),
                               current_context.args)
          IN  found # << >> =>
                /\ found[1].type = SYSCALL_CRASH
                      => current_context.skip_crashed < MaxSkips
                /\ found[1].type = SYSCALL_ERRNO_ZERO
                      => current_context.skip_errno_zero < MaxSkips

\* Scheduling of the worker, a process too: weak fairness of its steps,
\* WF_vars(Worker), written out with WorkerCanStep for ENABLED <<Worker>>_vars
WorkerFairness == ([]<>~WorkerCanStep) \/ ([]<><<Worker>>_vars)

LiveWorkerSpec == LiveInit /\ [][Next]_vars /\ Fairness /\ WorkerFairness

(* ------------------------------------------------------------------ *)
(* Properties                                                          *)
(* ------------------------------------------------------------------ *)
\* the worker has entered the kernel with the call held in inflight
InCall == wstate \in {"running", "killed"} /\ wpc \in {"in_call", "blocked"}

\* table holds a node for exactly this system call and these arguments
HasTuple(table, syscall_num, args) ==
    \E k \in 1..Len(table) :
        table[k].syscall = syscall_num /\ table[k].args = args

\* C1: once the supervisor's table holds a (syscall, args) tuple tagged
\* CRASH, no worker forked afterwards invokes that tuple, in whatever pass:
\* a call in flight never is a tuple of the supervisor's table.
C1_CrashedTupleNeverInvokedAgain ==
    InCall => ~HasTuple(hash_table, inflight.syscall, inflight.args)

\* C2: within one worker, a tuple whose call has returned 0 is never invoked
\* again, also not in a later pass over the system calls.
C2_ZeroReturnNeverInvokedAgain ==
    InCall =>
        [syscall |-> inflight.syscall, args |-> inflight.args]
            \notin zero_recorded

\* C3: no system call of a descriptor is invoked while the crash count of
\* that descriptor is at or above MAX_CRASHES.
C3_NoCallAtCrashCap ==
    InCall => current_context.crash_count[inflight.idx] < MAX_CRASHES

\* C3 witness: a worker has passed over a descriptor whose crash count is at
\* the cap (continue; i++) and goes on with the loop.
C3_DescriptorSkippedAtCap ==
    /\ wstate = "running" /\ wpc = "w_for" /\ wi > 0
    /\ current_context.crash_count[reorder[wi - 1]] >= MAX_CRASHES

\* C4: while a call is in flight the witness holds its syscall number, table
\* index, six arguments, hash and type SYSCALL_CRASH, and a worker that ended
\* inside the call has left exactly that record.
C4_WitnessCompleteBeforeCall ==
    ((wstate \in {"running", "killed", "dead"}) /\ inflight # NoCall) =>
        /\ current_context.syscall = inflight.syscall
        /\ current_context.idx = inflight.idx
        /\ current_context.args = inflight.args
        /\ current_context.hash =
              stress_syscall_hash(inflight.syscall, inflight.args)
        /\ current_context.type = SYSCALL_CRASH

\* C4 witness: a worker has ended inside a call
C4_WorkerEndedInsideCall ==
    wstate = "dead" /\ wexit = "failure" /\ inflight # NoCall

\* C5: every tuple the supervisor inserts with the CRASH tag after reaping a
\* worker is a call that worker had issued and that had not returned when it
\* terminated; no node is added and no crash count bumped for a worker that
\* terminated with no call in flight.
C5_RecordedCallWasInFlight ==
    ppc = "p_recorded" =>
        /\ inflight # NoCall
        /\ current_context.syscall = inflight.syscall
        /\ current_context.idx = inflight.idx
        /\ current_context.args = inflight.args

\* the witness names a system call together with its index in syscall_args
\* and arguments that syscall_permute() can have chosen for it (or zero)
WitnessConsistent ==
    LET d == syscall_args[current_context.idx]
        Chosen(p) ==
            LET values == ArgValues(d.args[p], emptyStr, sockfd)
            IN  { values[k] : k \in 1..Len(values) }
    IN  /\ current_context.syscall = d.syscall
        /\ \A p \in 0..5 :
              \/ current_context.args[p] = ZeroW
              \/ p < d.num_args /\ current_context.args[p] \in Chosen(p)

\* C6: after any abnormal end of a worker, at whatever step, the witness is
\* consistent: witness.syscall is the system call of the descriptor at
\* witness.idx and witness.args are values of that descriptor's arguments.
\* (A page no worker has written to yet, syscall = 0, is left aside.)
C6_WitnessConsistentAfterAbnormalExit ==
    (wstate = "dead" /\ wexit \in {"failure", "killed"}
        /\ current_context.syscall # 0) => WitnessConsistent

\* C7: crash_count[idx] is at most MAX_CRASHES for every descriptor, in
\* every reachable state.
C7_CrashCountCapped ==
    \A j \in DOMAIN syscall_args :
        current_context.crash_count[j] <= MAX_CRASHES

\* C8: at every moment at most one worker process is alive.
C8_AtMostOneWorkerAlive ==
    orphans + (IF wstate \in {"running", "killed"} THEN 1 ELSE 0) <= 1

\* C9: the supervisor's table holds only CRASH nodes; it changes only in the
\* supervisor's recording step, which adds a node and leaves the others as
\* they are, and at shutdown; whatever a worker does leaves it unchanged; a
\* new worker starts with exactly the supervisor's nodes, all of them CRASH.
C9_SupervisorTableFrame ==
    [][ /\ \A k \in 1..Len(hash_table') :
              hash_table'[k].type = SYSCALL_CRASH
        /\ hash_table' # hash_table => ppc \in {"p_record", "p_done"}
        /\ (hash_table' # hash_table /\ ppc = "p_record") =>
              /\ Len(hash_table') = Len(hash_table) + 1
              /\ Tail(hash_table') = hash_table
        /\ (wstate # "running" /\ wstate' = "running") =>
              /\ child_table' = hash_table
              /\ \A k \in 1..Len(child_table') :
                    child_table'[k].type # SYSCALL_ERRNO_ZERO
      ]_vars

\* C9 witness: a worker forked from a supervisor that holds CRASH nodes has
\* added a ZERO-RETURN node to its own table
C9_WorkerHoldsBothKinds ==
    /\ wstate = "running" /\ hash_table # << >>
    /\ \E k \in 1..Len(child_table) : child_table[k].type = SYSCALL_ERRNO_ZERO
    /\ \E k \in 1..Len(child_table) : child_table[k].type = SYSCALL_CRASH

\* C10: a leaf is skipped only if the table holds a node whose system call
\* AND six arguments equal those of the call about to be made: every step
\* in which the walk along the chain finds a match and the leaf returns
\* without the call starts in a state whose table holds such a node.
C10_SkipOnlyOnFullTuple ==
    [][ (wstate = "running" /\ wpc = "leaf_lookup" /\ wpc' = "perm_return") =>
            HasTuple(child_table, syscall_arg.syscall, current_context.args)
      ]_vars

\* C11: the worker checks the continue flag at every engine leaf: once the
\* flag is cleared no further system call is invoked, also in the middle of
\* the enumeration of a descriptor's arguments; so a leaf goes on from its
\* lookup to the invocation only while the flag is set.
C11_NoLeafInvocationAfterStop ==
    [][ (wstate = "running" /\ wpc = "leaf_lookup" /\ wpc' = "leaf_counter")
            => keep ]_vars

\* C12: with an ops limit N configured, once current_context->counter has
\* reached N the continue predicate keep_stressing() seen by the worker and
\* the supervisor is false (and the run stops without the stop flag).
C12_OpsLimitStopsRun ==
    (max_ops > 0 /\ current_context.counter >= max_ops
        /\ ppc \notin {"p_done", "p_end"}) => ~keep_stressing

\* the worker sleeps in a call that does not return
Blocked == wstate = "running" /\ wpc = "blocked"

\* the supervisor has just recorded the call held in inflight: its tuple is
\* the newest node of the table, tagged CRASH
InflightRecorded ==
    /\ ppc = "p_recorded" /\ inflight # NoCall
    /\ Len(hash_table) > 0
    /\ Head(hash_table).syscall = inflight.syscall
    /\ Head(hash_table).args = inflight.args
    /\ Head(hash_table).type = SYSCALL_CRASH

\* the recording step for a worker that ended inside a call increments the
\* crash count of the descriptor of that call
InflightCounted ==
    (ppc = "p_record" /\ ppc' = "p_recorded" /\ inflight # NoCall) =>
        current_context'.crash_count[inflight.idx] =
            current_context.crash_count[inflight.idx] + 1

C14_InterruptedWaitIsRepeated ==
    [][ (ppc = "p_interrupted" /\ ppc' # ppc) =>
            /\ ppc' = "p_wait"
            /\ wstate' = wstate
            /\ hash_table' = hash_table
      ]_vars

\* C15: when the witness page or one of the two arena regions cannot be
\* mapped at startup, stress_sysinval() returns EXIT_NO_RESOURCE, and no
\* worker has been forked and no system call issued: a supervisor or a
\* worker exists, or a call was counted or recorded, only with all three
\* regions mapped, and a startup that stops with a region missing has the
\* resource-exhaustion status and stops for good.
C15_MmapFailureIsNoResource ==
    /\ mapped # Regions =>
         /\ ppc \in {"s_socket", "s_mmap_context", "s_mmap_small",
                      "s_mmap_page", "s_failed"}
         /\ ppc \in {"s_socket", "s_mmap_context"} => mapped = {}
         /\ ppc = "s_mmap_small" => mapped = {"current_context"}
         /\ ppc = "s_mmap_page" => mapped = {"current_context", "small_ptr"}
         /\ wstate = "none"
         /\ orphans = 0
         /\ current_context.counter = 0
         /\ inflight = NoCall
         /\ hash_table = << >>
    /\ ppc = "s_failed" =>
         /\ mapped # Regions
         /\ exit_status = "EXIT_NO_RESOURCE"

\* C15 witness: the startup stopped because the second arena region could
\* not be mapped
C15_PageArenaNotMapped ==
    /\ ppc = "s_failed"
    /\ mapped = {"current_context", "small_ptr"}
    /\ exit_status = "EXIT_NO_RESOURCE"

\* C16: when the creation of the helper socket fails at startup, the
\* failure is propagated as a resource-exhaustion exit and no worker is
\* started: with sockfds[0] = -1 there is no worker, no call has been
\* counted, and a finished run has the status EXIT_NO_RESOURCE.
C16_SocketFailureIsNoResource ==
    sockfd = SL(-1) =>
        /\ wstate = "none"
        /\ orphans = 0
        /\ current_context.counter = 0
        /\ ppc \in {"s_failed", "p_end"} => exit_status = "EXIT_NO_RESOURCE"

\* C17: the way a worker ended never reaches the framework. Whatever exit
\* status or signal ended a worker, the supervisor interprets it, returns
\* from stress_do_syscall() and comes back to the loop condition; there the
\* loop goes on while the continue predicate holds, and when it does not
\* the supervisor's status is EXIT_SUCCESS whatever the last
\* stress_do_syscall() returned.
C17_WorkerStatusNeverReachesFramework ==
    [][ /\ (ppc \in {"p_record", "p_recorded"} /\ ppc' # ppc) =>
             ppc' \in {"p_recorded", "p_while"}
        /\ (ppc = "p_while" /\ ppc' # ppc) =>
             IF keep_stressing
             THEN ppc' = "p_loop" /\ exit_status' = exit_status
             ELSE ppc' = "p_done" /\ exit_status' = "EXIT_SUCCESS" ]_vars

\* C17 witness: the run stopped cleanly with status EXIT_SUCCESS right
\* after a worker that the alarm handler ended with _exit(1) and whose
\* call was counted as a crash
C17_CleanStopAfterFailedWorker ==
    /\ ppc = "p_done"
    /\ rc = "EXIT_FAILURE"
    /\ exit_status = "EXIT_SUCCESS"
    /\ \E j \in DOMAIN current_context.crash_count :
          current_context.crash_count[j] > 0

\* the worker is between current_context->counter++ and the syscall()
CountedNotYetCalled ==
    wstate = "running" /\ wpc \in {"leaf_hash", "leaf_type", "leaf_call"}

\* C18: current_context->counter is the number of system calls all the
\* workers have issued: it is incremented once per call, just before it
\* (so it is one ahead only while a live worker is between the increment
\* and the call), never for a skipped leaf, and the count handed to the
\* framework at shutdown is current_context->counter.
C18_CounterIsCallsIssued ==
    /\ current_context.counter =
          IF CountedNotYetCalled THEN issued + 1 ELSE issued
    /\ ppc = "p_end" => args_counter = current_context.counter

\* C19: current_context->counter, skip_crashed, skip_errno_zero and every
\* crash_count[] entry never decrease and are never reset, whatever step
\* is taken: a worker dying, the supervisor recording it, a new worker
\* being forked.
C19_WitnessCountersMonotone ==
    [][ /\ current_context'.counter >= current_context.counter
        /\ current_context'.skip_crashed >= current_context.skip_crashed
        /\ current_context'.skip_errno_zero >= current_context.skip_errno_zero
        /\ \A j \in DOMAIN current_context.crash_count :
              current_context'.crash_count[j] >= current_context.crash_count[j]
      ]_vars

\* C19 witness: a worker forked after an earlier one crashed runs with
\* the call count, the crash count and the skip count of its predecessors
C19_RespawnedWorkerSeesCounts ==
    /\ wstate = "running"
    /\ current_context.counter > 0
    /\ current_context.skip_crashed > 0
    /\ \E j \in DOMAIN current_context.crash_count :
          current_context.crash_count[j] > 0

\* the supervisor leaves its loop: stress_sysinval_child() returns or the
\* supervisor process exits
LoopEnds == ppc # "p_done" /\ ppc' = "p_done"

\* C20 as stated: while the continue flag is set, every worker termination
\* is eventually followed by the fork of a new worker, and the supervisor
\* loop ends only when the continue predicate has become false.
C20_RespawnUntilStopped ==
    /\ (wstate = "dead" /\ keep) ~> (wstate = "running" \/ ~keep)
    /\ [][ LoopEnds => ~keep_stressing ]_vars

\* C20 amended: while the continue flag is set, every worker termination
\* is eventually followed by the fork of a new worker, unless fork() fails
\* (the supervisor ends) or stress_drop_capabilities() fails (the
\* supervisor returns to its loop and tries again); the supervisor loop
\* ends only when the continue predicate has become false or fork() has
\* failed.
C20_RespawnUntilStoppedOrForkFails ==
    /\ (wstate = "dead" /\ keep) ~>
          (wstate = "running" \/ ~keep \/ ppc = "p_done" \/ ppc = "p_nocap")
    /\ [][ LoopEnds => (~keep_stressing \/ ppc = "p_fork") ]_vars

\* C20 witness: with the flag set, the supervisor has forked a new worker
\* after an earlier worker that had issued a call terminated
C20_NewWorkerForked ==
    /\ keep
    /\ ppc = "p_wait"
    /\ wstate = "running" /\ wpc = "w_dropcap"
    /\ issued > 0

\* the supervisor has started (stress_sysinval_child() runs or has run)
Started ==
    ppc \notin {"s_socket", "s_mmap_context", "s_mmap_small", "s_mmap_page",
                "s_child", "s_failed"}

\* the worker stands at a leaf that the bounds of the model (MaxCalls,
\* MaxSkips) do not let it run
WorkerAtBound ==
    wstate = "running" /\ wpc \in {"leaf_counter", "leaf_lookup"} /\ ~WorkerCanStep

\* stress_sysinval() has emitted the counts and returns, no worker left to
\* wait for
Returned ==
    /\ ppc = "p_end"
    /\ wstate = "none"
    /\ args_counter = current_context.counter

C22_WitnessSingleWriter ==
    [][ /\ current_context' # current_context =>
              (wstate = "running" /\ ppc' = ppc)
        /\ (ppc = "p_record" /\ ppc' # ppc) =>
              (wstate \notin {"running", "killed"} /\ orphans = 0) ]_vars

\* C23 (as stated): when an invoked call returns, the worker's table gains
\* exactly one node, of type SYSCALL_ERRNO_ZERO, holding the call's syscall
\* number and arguments under the hash of that tuple, if and only if the call
\* returned 0; for any other return value the table is unchanged; and the
\* worker's next statement stores SYSCALL_FAIL in current_context->type.
C23_ZeroReturnAlwaysRecorded ==
    [][ /\ (wstate = "running" /\ wpc = "in_call" /\ wpc' = "leaf_fail") =>
             LET node == [hash |-> stress_syscall_hash(current_context.syscall,
                                                       current_context.args),
                          syscall |-> current_context.syscall,
                          args |-> current_context.args,
                          type |-> SYSCALL_ERRNO_ZERO]
             IN  /\ lret' = 0 => child_table' = << node >> \o child_table
                 /\ lret' # 0 => child_table' = child_table
        /\ (wpc = "leaf_fail" /\ wpc' = "perm_return") =>
             current_context'.type = SYSCALL_FAIL ]_vars

\* C23 (amended): as above, except that a call that returned 0 leaves the
\* table unchanged when calloc() in hash_table_add() returns NULL.
C23_ZeroReturnRecordedIfAllocated ==
    [][ /\ (wstate = "running" /\ wpc = "in_call" /\ wpc' = "leaf_fail") =>
             LET node == [hash |-> stress_syscall_hash(current_context.syscall,
                                                       current_context.args),
                          syscall |-> current_context.syscall,
                          args |-> current_context.args,
                          type |-> SYSCALL_ERRNO_ZERO]
             IN  /\ (lret' = 0 /\ faults' = faults) =>
                       child_table' = << node >> \o child_table
                 /\ (lret' # 0 \/ faults' # faults) =>
                       child_table' = child_table
        /\ (wpc = "leaf_fail" /\ wpc' = "perm_return") =>
             current_context'.type = SYSCALL_FAIL ]_vars

\* A call has returned 0 and its tuple heads the worker's table as a
\* ZERO-RETURN node, the type not yet reset
C23_ReturnedZeroAndRecorded ==
    /\ wstate = "running" /\ wpc = "leaf_fail" /\ lret = 0
    /\ child_table # << >>
    /\ child_table[1].type = SYSCALL_ERRNO_ZERO
    /\ child_table[1].args = current_context.args
    /\ child_table[1].syscall = current_context.syscall
    /\ current_context.type = SYSCALL_CRASH

\* C24: at a leaf whose arguments the walk of the bucket finds, the worker's
\* step increments exactly one skip counter by one, skip_crashed for a node
\* of type SYSCALL_CRASH and skip_errno_zero for one of type
\* SYSCALL_ERRNO_ZERO, issues no call and leaves every other field of the
\* witness (counter, hash, type among them) and the table as they were.
C24_SkipTouchesOneCounterOnly ==
    [][ (/\ wstate = "running" /\ wpc = "leaf_lookup"
         /\ wstate' = "running" /\ wpc' # wpc
         /\ Matches(child_table,
                    stress_syscall_hash(syscall_arg.syscall, current_context.args),
                    current_context.args) # << >>) =>
           LET found == Matches(child_table,
                           stress_syscall_hash(syscall_arg.syscall,
                                               current_context.args),
                           current_context.args)
               crash == IF found[1].type = SYSCALL_CRASH THEN 1 ELSE 0
               zero  == IF found[1].type = SYSCALL_ERRNO_ZERO THEN 1 ELSE 0
           IN  /\ crash + zero = 1
               /\ current_context' =
                    [current_context EXCEPT !.skip_crashed = @ + crash,
                                            !.skip_errno_zero = @ + zero]
               /\ wpc' = "perm_return"
               /\ issued' = issued /\ inflight' = inflight
               /\ child_table' = child_table /\ hash_table' = hash_table
      ]_vars

\* The worker is back from a leaf it skipped, and by now it has skipped
\* tuples of both kinds
C24_SkippedBothKinds ==
    /\ wstate = "running" /\ wpc = "perm_return"
    /\ current_context.skip_crashed > 0
    /\ current_context.skip_errno_zero > 0
    /\ current_context.type # SYSCALL_CRASH

\* The value list of position p (from 0) of the descriptor being permuted
ValuesAt(p) ==
    Values(syscall_arg.args[p],
           IF p < Len(rnd_values) THEN rnd_values[p + 1]
           ELSE CHOOSE r \in RndValues : TRUE,
           emptyStr, sockfd)

\* All index combinations over lists of the given lengths, in lexicographic
\* order with the first position most significant
RECURSIVE Combos(_)
Combos(lens) ==
    IF lens = << >> THEN << << >> >>
    ELSE LET rest == Combos(Tail(lens))
         IN  [n \in 1..(lens[1] * Len(rest)) |->
                 << ((n - 1) \div Len(rest)) + 1 >>
                     \o rest[((n - 1) % Len(rest)) + 1]]

\* C25: one run of syscall_permute() on a descriptor of arity k with value
\* lists V0..Vk-1 reaches the leaf once for every index combination and for
\* nothing else, in lexicographic order with position 0 most significant,
\* and at each leaf args[0..k-1] hold the values of the combination.
C25_LeafOncePerCombinationInOrder ==
    [][ /\ (wstate = "running" /\ wpc = "perm_return" /\ vi = << >>
                /\ wpc' = "w_for") =>
             visits = Combos([p \in 1..syscall_arg.num_args |->
                                 Len(ValuesAt(p - 1))])
        /\ (wstate = "running" /\ wpc = "perm_enter"
                /\ wpc' = "leaf_lookup") =>
             /\ Len(vi) = syscall_arg.num_args
             /\ \A p \in 0..(syscall_arg.num_args - 1) :
                   current_context.args[p] = ValuesAt(p)[vi[p + 1]]
      ]_vars

\* The run on unlinkat (lists of 4, 2 and 4 values) is about to return to
\* its caller, having reached the leaf 32 times
C25_UnlinkatRunComplete ==
    /\ syscall_arg.name = "unlinkat"
    /\ wstate = "running" /\ wpc = "perm_return" /\ vi = << >>
    /\ Len(visits) = 32
    /\ visits[1] = << 1, 1, 1 >> /\ visits[2] = << 1, 1, 2 >>
    /\ visits[32] = << 4, 2, 4 >>

\* r holds every descriptor index exactly once
IsPermutation(r) ==
    /\ DOMAIN r = DOMAIN syscall_args
    /\ \A j \in DOMAIN syscall_args : \E i \in DOMAIN r : r[i] = j
    /\ \A i, k \in DOMAIN r : r[i] = r[k] => i = k

\* C26: reorder[] is at all times a permutation of the descriptor indices;
\* within a pass the worker moves from reorder[i] to reorder[i + 1] only
\* after it has made reorder[i] the current descriptor, and it leaves it
\* from the crash cap, from a failed setitimer() or from the return of
\* syscall_permute(); and a pass that ends while the flag is still set has
\* gone through all of reorder[].
C26_PassVisitsEachDescriptorOnce ==
    [][ /\ IsPermutation(reorder) /\ IsPermutation(reorder')
        /\ (wstate = "running" /\ wstate' = "running" /\ wi' # wi) =>
              \/ wpc = "w_shuffle" /\ wi' = 0
              \/ /\ wi' = wi + 1 /\ wi < NumSyscalls
                 /\ current_context.idx = reorder[wi]
                 /\ current_context.syscall = syscall_args[reorder[wi]].syscall
                 /\ \/ wpc = "w_cap"
                          /\ current_context.crash_count[reorder[wi]] >= MAX_CRASHES
                    \/ wpc = "w_timer"
                    \/ wpc = "perm_return" /\ vi = << >>
        /\ (wstate = "running" /\ wpc = "w_for" /\ wpc' = "w_free" /\ keep) =>
              /\ wi = NumSyscalls
              /\ { reorder[i] : i \in 0..(wi - 1) } = DOMAIN syscall_args
      ]_vars

\* A pass over a shuffled order (chroot before chdir) has completed with the
\* flag set
C26_ShuffledPassCompleted ==
    /\ wstate = "running" /\ wpc = "w_free" /\ keep
    /\ wi = NumSyscalls
    /\ reorder[0] = 1 /\ reorder[1] = 0

\* The worker is inside syscall_permute()
InEngine(pc) ==
    pc \in {"perm_enter", "perm_loop", "perm_return", "leaf_lookup",
            "leaf_counter", "leaf_hash", "leaf_type", "leaf_call", "in_call",
            "blocked", "leaf_fail"}

\* C27: the worker enters syscall_permute() for a descriptor only from a
\* setitimer() that succeeded and left the 100 ms timer armed; a failed
\* setitimer() moves on to the next descriptor without a call; and a call
\* is only issued from inside syscall_permute() with the timer armed.
C27_NoCallWithoutArmedTimer ==
    [][ /\ (wstate = "running" /\ wstate' = "running"
                /\ ~InEngine(wpc) /\ InEngine(wpc')) =>
              /\ wpc = "w_timer" /\ wpc' = "perm_enter"
              /\ timer' = TRUE
        /\ (wstate = "running" /\ wstate' = "running"
                /\ wpc = "w_timer" /\ wpc' \notin {"w_timer", "perm_enter"}) =>
              /\ wpc' = "w_for" /\ wi' = wi + 1
              /\ issued' = issued /\ timer' = timer
        /\ issued' # issued =>
              /\ wstate = "running" /\ wpc = "leaf_call" /\ timer
      ]_vars

\* The second descriptor of the pass has a call in flight under the armed
\* timer, the first one having been passed over without a call
C27_CallUnderArmedTimer ==
    /\ wstate = "running" /\ wpc = "in_call" /\ timer
    /\ wi = 1 /\ issued = 1 /\ current_context.counter = 1
    /\ current_context.skip_crashed = 0

\* C28: a call is issued only by a worker that has unmapped the shared
\* state, made itself non-dumpable, dropped its capabilities and installed
\* stress_inval_handler() for all of sigs[], with no failure among them; and
\* a worker whose stress_drop_capabilities() or stress_sighandler() has
\* failed is no longer running and issues no call.
C28_SetupBeforeAnyCall ==
    [][ /\ issued' # issued => wsetup = SetupSteps
        /\ (wsetup' \ SetupSteps # {}) =>
              /\ wstate' \notin {"running", "killed"}
              /\ issued' = issued
              /\ wsetup' # wsetup =>
                    wstate' = "dead" /\ wexit' \in {"no_resource", "failure"}
      ]_vars

\* The first call of the run is in flight, issued by a worker that has
\* completed every step of its setup
C28_FirstCallAfterSetup ==
    /\ wstate = "running" /\ wpc = "in_call" /\ issued = 1
    /\ wsetup = SetupSteps

\* C29: the value the loop of syscall_permute() stores for a position whose
\* tag A is neither ARG_NONE nor ARG_RND is the i-th value of the first
\* entry of arg_values[], in declaration order, whose mask bits are all set
\* in A; in particular ARG_PTR combined with ARG_STRUCT_SOCKADDR,
\* ARG_EMPTY_FILENAME, ARG_DEVZERO_FILENAME or ARG_BRK_ADDR takes its values
\* from sockaddrs[], empty_filenames[], zero_filenames[] and brk_addrs[],
\* never from ptrs[].
C29_FirstMatchingTableGivesValues ==
    [][ (wstate = "running" /\ wpc = "perm_loop" /\ wpc' = "perm_enter") =>
          LET p == Len(vi) - 1
              i == vi[Len(vi)]
              A == syscall_arg.args[p]
              v == current_context'.args[p]
              tbl == arg_values(emptyStr, sockfd)
              From(values) == i <= Len(values) /\ v = values[i]
          IN  (A # ARG_NONE /\ A # ARG_RND) =>
                /\ \E k \in 1..Len(tbl) :
                      /\ ARG_MASK(A, tbl[k].mask)
                      /\ \A m \in 1..(k - 1) : ~ARG_MASK(A, tbl[m].mask)
                      /\ From(tbl[k].values)
                /\ A = ARG_PTR + ARG_STRUCT_SOCKADDR => From(sockaddrs)
                /\ A = ARG_PTR + ARG_EMPTY_FILENAME =>
                      From(empty_filenames(emptyStr))
                /\ A = ARG_PTR + ARG_DEVZERO_FILENAME => From(zero_filenames)
                /\ A = ARG_PTR + ARG_BRK_ADDR => From(brk_addrs)
      ]_vars

\* The run on brk has stored the last of brk_addrs[], 4096, a value that
\* ptrs[] does not hold
C29_BrkTakesBrkAddrs ==
    /\ syscall_arg.name = "brk"
    /\ wstate = "running" /\ wpc = "perm_enter" /\ vi = << 6 >>
    /\ current_context.args[0] = UL(4096)

C31_RndEndsWithTheTwoArenaPointers ==
    [][ (/\ wstate = "running" /\ wstate' = "running"
         /\ wpc = "perm_loop" /\ wpc' # wpc
         /\ syscall_arg.args[Len(vi) - 1] = ARG_RND) =>
           LET arg_num == Len(vi) - 1
               i == vi[Len(vi)]
           IN  /\ i \in 1..5
               /\ (wpc' = "perm_enter") <=> (i <= 4)
               /\ (i = 3) => current_context'.args[arg_num] = ptrs[1]
               /\ (i = 4) => current_context'.args[arg_num] = ptrs[2]
      ]_vars

\* C32: at every leaf of syscall_permute() for a descriptor of num_args k
\* the words current_context->args[p], p >= k, are zero, and when the call
\* for position 0 has returned all six words are zero again: the key of a
\* call holds nothing left by another descriptor or another branch.
C32_UnusedArgsAreZero ==
    wstate = "running" =>
      /\ wpc \in {"leaf_lookup", "leaf_counter", "leaf_hash", "leaf_type",
                  "leaf_call", "in_call", "blocked", "leaf_fail"} =>
            \A p \in syscall_arg.num_args..5 :
                current_context.args[p] = ZeroW
      /\ (wpc = "perm_return" /\ vi = << >>) =>
            current_context.args = ZeroArgs

\* A leaf of munlock (two arguments) in a later branch of position 0, both
\* argument words set and the four others zero
C32_LeafOfLaterBranch ==
    /\ wstate = "running" /\ wpc = "leaf_call"
    /\ syscall_arg.num_args = 2
    /\ Len(vi) = 2 /\ vi[1] > 1
    /\ current_context.args[0] # ZeroW /\ current_context.args[1] # ZeroW
    /\ \A p \in 2..5 : current_context.args[p] = ZeroW

\* C33 (as stated): the supervisor's table never holds two nodes with the
\* same (syscall, args) tuple, and crash_count[idx] is the number of distinct
\* tuples of descriptor idx that crashed a worker.  In a run without
\* asynchronous event every node of the table is such a tuple, so there the
\* count is compared with the distinct tuples of the descriptor in the table,
\* as long as hash_table_free() has not run.
C33_NoDuplicateCrashAndCountsMatch ==
    /\ \A j, k \in 1..Len(hash_table) :
          (/\ hash_table[j].syscall = hash_table[k].syscall
           /\ hash_table[j].args = hash_table[k].args) => j = k
    /\ (faults = 0 /\ ppc # "p_end") =>
          \A idx \in DOMAIN syscall_args :
              current_context.crash_count[idx] =
                 Cardinality({ hash_table[k].args :
                                 k \in { m \in 1..Len(hash_table) :
                                           hash_table[m].syscall =
                                              syscall_args[idx].syscall } })

\* C34 (as stated): every node of the hash table, the supervisor's and a
\* worker's copy, is in the bucket whose index is the hash of the node's own
\* (syscall, args) tuple; the bucket the supervisor takes from
\* current_context->hash is that of the tuple it inserts.
C34_NodeIsInBucketOfItsTuple ==
    /\ \A k \in 1..Len(hash_table) :
          hash_table[k].hash =
             stress_syscall_hash(hash_table[k].syscall, hash_table[k].args)
    /\ \A k \in 1..Len(child_table) :
          child_table[k].hash =
             stress_syscall_hash(child_table[k].syscall, child_table[k].args)

\* C36 (as stated): on every return path of stress_sysinval(), those of a
\* failed startup included, everything acquired so far has been released in
\* full: the witness mapping over its whole length, both arena mappings, the
\* helper socket if it was opened, and all nodes of the hash table.
C36_EveryReturnReleasesAll ==
    ppc \in {"s_failed", "p_end"} =>
        /\ held = NoneHeld
        /\ hash_table = << >>

\* C35 (as stated): for six pairwise distinct argument words, rearranging
\* the words among the six positions changes stress_syscall_hash() for at
\* least 95% of the rearrangements: once all 719 rearrangements other than
\* the given order have been hashed, at least 95 in 100 of them differed.
C35_RearrangingChangesHash ==
    hash_k = Factorial(6) - 1 =>
        100 * hash_changed >= 95 * hash_k

(* ------------------------------------------------------------------ *)
(* stress_mmap_fast_unmap() and step #4 of the loop                    *)
(* ------------------------------------------------------------------ *)
\* the pages flagged PAGE_MAPPED on entry to the last call of
\* stress_mmap_fast_unmap()
CallMapped == { n \in PageIndexes : unmap_call.mapped[n] = PAGE_MAPPED }

\* the requests of the last call whose range holds address a
CallCovering(a) ==
    { k \in 1..Len(unmap_call.requests) :
        /\ unmap_call.requests[k].start <= a
        /\ a < unmap_call.requests[k].start + unmap_call.requests[k].len }

\* the first pages of the maximal runs of address-adjacent mapped pages
CallRunStarts ==
    { n \in CallMapped :
        \A m \in CallMapped :
            unmap_call.mappings[m] + page_size # unmap_call.mappings[n] }

\* the page addresses of the buffers
PageAddresses == { buf + (n * page_size) : buf \in MmapBufs, n \in PageIndexes }

\* C37: the requests of stress_mmap_fast_unmap() cover every page flagged
\* PAGE_MAPPED exactly once and no other page, there is one request per
\* maximal run of address-adjacent mapped pages, and on return every flag
\* of mapped[] is cleared.
C37_FastUnmapCoversEachMappedPageOnce ==
    mpc \in {"step2", "step4"} =>
        /\ \A n \in CallMapped :
               Cardinality(CallCovering(unmap_call.mappings[n])) = 1
        /\ \A a \in PageAddresses :
               CallCovering(a) # {} =>
                   \E n \in CallMapped : unmap_call.mappings[n] = a
        /\ Len(unmap_call.requests) = Cardinality(CallRunStarts)
        /\ mpc = "step4" => page_mapped = ClearedFlags

\* C38: after step #4 of an iteration in which a page was flagged
\* PAGE_MAPPED when step #3 began, step #4 has issued two munmap requests
\* on the first such page, with length 0 and with length page_size.
C38_Step4UnmapsFirstMappedPageAgain ==
    (mpc = "step5" /\ CallMapped # {}) =>
        LET n == CHOOSE k \in CallMapped : \A m \in CallMapped : k <= m
        IN  step4_unmaps =
                << [start |-> unmap_call.mappings[n], len |-> 0],
                   [start |-> unmap_call.mappings[n], len |-> page_size] >>

====
